---- MODULE Spec2Model ----
(***************************************************************************)
(* A model of the GemFinder evaluation pipeline: TokenFilter (filter.py),  *)
(* TokenScorer (scoring.py), RugPullDetector (rug_detector.py),            *)
(* TokenStorage (storage.py) and the GemFinderBot main loop (main.py).     *)
(*                                                                         *)
(* Python values are tagged records: numbers are exact rationals n/d (the  *)
(* code's floats are modelled as reals), strings are TLA+ strings, and a   *)
(* token is a function from the keys its dict holds to such values, so a   *)
(* missing key is a key outside DOMAIN token.                              *)
(***************************************************************************)
EXTENDS Integers, Sequences, FiniteSets, TLC

VARIABLES
    filter_stats,        \* TokenFilter.filter_stats
    risk_profile,        \* TokenFilter.risk_profile: None or a profile
    f_in,                \* the batch given to the last apply_all_filters call
    f_out,               \* what that call returned
    f_again,             \* what filtering f_out once more returned
    f_phase,             \* "idle" | "filtered" | "refiltered"
    f_calls,             \* number of apply_all_filters calls made so far
    weights,             \* TokenScorer.weights, in hundredths
    s_in,                \* the tokens given to the last scorer call
    s_out,               \* the list that call returned
    s_tokens,            \* the tokens given to that call, as the call left them
    s_ret,               \* the value calculate_score returned
    s_thr,               \* the threshold the caller passed, or NoThreshold
    s_phase,             \* "idle" | "scored_one" | "scored" | "raised"
    notified_tokens,     \* TokenStorage.data["notified_tokens"]
    total_notifications, \* TokenStorage.data["statistics"]["total_notifications"]
    scan_history,        \* TokenStorage.data["scan_history"]
    total_scans,         \* TokenStorage.data["statistics"]["total_scans"]
    now,                 \* the wall clock, in days
    recorded,            \* history: every key add_notified_token was given
    last_op,             \* the last ledger operation, its arguments and outcome
    rug_call,            \* the last RugPullDetector call, its arguments and outcome
    pc,                  \* position of GemFinderBot.start / run_scan_cycle
    scan_count,          \* start()'s local scan_count
    consecutive_errors,  \* GemFinderBot.consecutive_errors
    active_profile,      \* config.ACTIVE_RISK_PROFILE
    cycle                \* the running scan cycle's locals and its result

vars == <<filter_stats, risk_profile, f_in, f_out, f_again, f_phase, f_calls,
          weights, s_in, s_out, s_tokens, s_ret, s_thr, s_phase,
          notified_tokens, total_notifications, scan_history, total_scans,
          now, recorded, last_op, rug_call,
          pc, scan_count, consecutive_errors, active_profile, cycle>>

filterVars == <<filter_stats, risk_profile, f_in, f_out, f_again, f_phase, f_calls>>
scorerVars == <<weights, s_in, s_out, s_tokens, s_ret, s_thr, s_phase>>
ledgerVars == <<notified_tokens, total_notifications, scan_history, total_scans,
                now, recorded, last_op>>
detectorVars == <<rug_call>>
botVars    == <<pc, scan_count, consecutive_errors, active_profile, cycle>>

----------------------------------------------------------------------------
(* Bounds of the model *)

MaxBatch == 2        \* longest token batch handed to score_tokens
MaxCalls == 3        \* apply_all_filters calls on one TokenFilter instance
MaxDay   == 8        \* last day of the wall clock
MaxAdds  == 2        \* add_notified_token calls on one TokenStorage
MaxScans == 3        \* scans of the main loop that are followed step by step
MaxRecords == 104    \* add_scan_record calls on one TokenStorage
MaxFound == 3        \* tokens the sources return to one scan_all_sources call

----------------------------------------------------------------------------
(* Python values *)

Abs(x) == IF x < 0 THEN -x ELSE x

RECURSIVE GCD(_, _)
GCD(a, b) == IF b = 0 THEN a ELSE GCD(b, a % b)

\* the rational n/d in lowest terms, d > 0
Fr(n, d) ==
    LET s == IF d < 0 THEN -1 ELSE 1
        g == GCD(Abs(n), Abs(d))
    IN  [t |-> "num", n |-> (s * n) \div g, d |-> (s * d) \div g]

Nu(n) == [t |-> "num", n |-> n, d |-> 1]
St(s) == [t |-> "str", s |-> s]
Bo(b) == [t |-> "bool", b |-> b]
None  == [t |-> "none"]

IsNum(v) == v.t = "num"
IsStr(v) == v.t = "str"

RAdd(a, b) == Fr(a.n * b.d + b.n * a.d, a.d * b.d)
RSub(a, b) == Fr(a.n * b.d - b.n * a.d, a.d * b.d)
RMul(a, b) == Fr(a.n * b.n, a.d * b.d)
RDiv(a, b) == Fr(a.n * b.d, a.d * b.n)
RLe(a, b)  == a.n * b.d <= b.n * a.d
RLt(a, b)  == a.n * b.d < b.n * a.d
RMin(a, b) == IF RLt(b, a) THEN b ELSE a      \* Python min(a, b)
RMax(a, b) == IF RLt(a, b) THEN b ELSE a      \* Python max(a, b)
RAbs(a)    == [a EXCEPT !.n = Abs(a.n)]

\* a local variable of the code: value is computed once, and Body is the code
\* that follows the assignment
Local(value, Body(_)) == CHOOSE result \in {Body(v) : v \in {value}} : TRUE

\* dict.get(key, default)
Get(token, key, default) == IF key \in DOMAIN token THEN token[key] ELSE default

\* Python truthiness of a value
Truthy(v) ==
    CASE v.t = "num"  -> v.n # 0
      [] v.t = "str"  -> v.s # ""
      [] v.t = "bool" -> v.b
      [] OTHER        -> FALSE

LowerChar(c) ==
    LET up == "ABCDEFGHIJKLMNOPQRSTUVWXYZ"
        lo == "abcdefghijklmnopqrstuvwxyz"
    IN  IF \E i \in 1..26 : SubSeq(up, i, i) = c
        THEN LET i == CHOOSE i \in 1..26 : SubSeq(up, i, i) = c IN SubSeq(lo, i, i)
        ELSE c

\* str.lower()
RECURSIVE Lower(_)
Lower(s) == IF s = "" THEN "" ELSE LowerChar(SubSeq(s, 1, 1)) \o Lower(SubSeq(s, 2, Len(s)))

\* needle in hay
Contains(hay, needle) ==
    \E i \in 0..(Len(hay) - Len(needle)) : SubSeq(hay, i + 1, i + Len(needle)) = needle

With(token, key, v) == (key :> v) @@ token
Without(token, key) == [k \in DOMAIN token \ {key} |-> token[k]]

\* all sequences over S of length at most n
SeqUpTo(S, n) == UNION {[1..k -> S] : k \in 0..n}

----------------------------------------------------------------------------
(* config.py *)

MIN_MARKET_CAP    == 50000
MAX_MARKET_CAP    == 1000000
MIN_VOLUME_1H     == 5000
MIN_VOLUME_GROWTH == 15
SCORE_THRESHOLD   == 45
WHALE_THRESHOLD   == 50000

RISK_PROFILES ==
    [conservative |-> [min_market_cap |-> 500000, max_market_cap |-> 10000000,
                       min_volume_growth |-> 10, score_threshold |-> 60,
                       max_tokens_per_scan |-> 3],
     balanced     |-> [min_market_cap |-> 100000, max_market_cap |-> 2000000,
                       min_volume_growth |-> 15, score_threshold |-> 45,
                       max_tokens_per_scan |-> 5],
     aggressive   |-> [min_market_cap |-> 20000, max_market_cap |-> 1000000,
                       min_volume_growth |-> 5, score_threshold |-> 35,
                       max_tokens_per_scan |-> 10]]

ProfileNames == DOMAIN RISK_PROFILES

\* SCORE_WEIGHTS, in hundredths
SCORE_WEIGHTS ==
    [market_cap |-> 15, volume_growth |-> 35, liquidity_lock |-> 15,
     contract_security |-> 10, whale_activity |-> 10, social_signals |-> 15]

Categories == DOMAIN SCORE_WEIGHTS

----------------------------------------------------------------------------
(* filter.py: TokenFilter *)

\* 'trending' in source.lower() or 'detailed' in source.lower()
IsTrendingOrDetailed(source) ==
    Contains(Lower(source), "trending") \/ Contains(Lower(source), "detailed")

\* a market-cap check that forgets the trending widening when the
\* volatility widening applies
_check_market_cap_widening_once(token, min_cap0, max_cap0) ==
    LET market_cap == Get(token, "market_cap", Nu(0))
        source     == Get(token, "source", St(""))
        change     == Get(token, "price_change_24h", Nu(0))
    IN  IF ~IsNum(market_cap) THEN FALSE
        ELSE IF RLe(market_cap, Nu(0)) THEN FALSE
        ELSE IF ~IsStr(source) THEN FALSE
        ELSE IF ~IsNum(change) THEN FALSE
        ELSE
          LET volatile == RLt(Nu(50), RAbs(change))
              lenient  == ~volatile /\ IsTrendingOrDetailed(source.s)
              min_cap  == IF volatile THEN RMul(Nu(min_cap0), Fr(3, 10))
                          ELSE IF lenient THEN RMul(Nu(min_cap0), Fr(5, 10)) ELSE Nu(min_cap0)
              max_cap  == IF volatile THEN RMul(Nu(max_cap0), Nu(5))
                          ELSE IF lenient THEN RMul(Nu(max_cap0), Nu(3)) ELSE Nu(max_cap0)
          IN  RLe(min_cap, market_cap) /\ RLe(market_cap, max_cap)

\* the body of TokenFilter._check_market_cap once min_cap and max_cap are
\* read from the profile or the configuration. An exception inside the try
\* block (a non-string source, a non-numeric 24h change) returns False.
_check_market_cap_in(token, min_cap0, max_cap0) ==
    LET market_cap == Get(token, "market_cap", Nu(0))
        source     == Get(token, "source", St(""))
        change     == Get(token, "price_change_24h", Nu(0))
    IN  IF ~IsNum(market_cap) THEN FALSE
        ELSE IF RLe(market_cap, Nu(0)) THEN FALSE
        ELSE IF ~IsStr(source) THEN FALSE
        ELSE IF ~IsNum(change) THEN FALSE
        ELSE
          LET lenient  == IsTrendingOrDetailed(source.s)
              min_cap1 == IF lenient THEN RMul(Nu(min_cap0), Fr(5, 10)) ELSE Nu(min_cap0)
              max_cap1 == IF lenient THEN RMul(Nu(max_cap0), Nu(3)) ELSE Nu(max_cap0)
              volatile == RLt(Nu(50), RAbs(change))
              min_cap  == IF volatile THEN RMul(min_cap1, Fr(3, 10)) ELSE min_cap1
              max_cap  == IF volatile THEN RMul(max_cap1, Nu(5)) ELSE max_cap1
          IN  RLe(min_cap, market_cap) /\ RLe(market_cap, max_cap)

\* TokenFilter._check_market_cap; rp is self.risk_profile: the band is the
\* profile's, or the configuration's when no profile is set
_check_market_cap(token, rp) ==
    _check_market_cap_in(token,
        IF rp # None THEN rp.min_market_cap ELSE MIN_MARKET_CAP,
        IF rp # None THEN rp.max_market_cap ELSE MAX_MARKET_CAP)

\* a volume check whose except clause lets the token through
_check_volume_failing_open(token) ==
    LET volume_24h == Get(token, "volume_24h", Nu(0))
        volume_1h  == Get(token, "volume_1h", Nu(0))
        market_cap == Get(token, "market_cap", Nu(0))
        source     == Get(token, "source", St(""))
    IN  IF ~IsNum(market_cap) THEN FALSE
        ELSE
          LET base == IF RLt(market_cap, Nu(500000)) THEN RMul(Nu(MIN_VOLUME_1H), Fr(3, 10))
                      ELSE IF RLt(market_cap, Nu(1000000)) THEN RMul(Nu(MIN_VOLUME_1H), Fr(5, 10))
                      ELSE Nu(MIN_VOLUME_1H)
          IN  IF ~IsNum(volume_24h) THEN TRUE
              ELSE IF RLe(base, volume_24h) THEN TRUE
              ELSE IF ~IsNum(volume_1h) THEN FALSE
              ELSE IF RLt(Nu(0), volume_1h) /\ RLe(RMul(base, Fr(1, 10)), volume_1h) THEN TRUE
              ELSE IF ~IsStr(source) THEN FALSE
              ELSE IsTrendingOrDetailed(source.s) /\ RLe(RMul(base, Fr(2, 10)), volume_24h)

\* TokenFilter._check_volume. Python evaluates the comparisons lazily, so a
\* non-numeric volume_1h raises only when the 24h volume is below the threshold.
_check_volume(token) ==
    LET volume_24h == Get(token, "volume_24h", Nu(0))
        volume_1h  == Get(token, "volume_1h", Nu(0))
        market_cap == Get(token, "market_cap", Nu(0))
        source     == Get(token, "source", St(""))
    IN  IF ~IsNum(market_cap) THEN FALSE
        ELSE
          LET base == IF RLt(market_cap, Nu(500000)) THEN RMul(Nu(MIN_VOLUME_1H), Fr(3, 10))
                      ELSE IF RLt(market_cap, Nu(1000000)) THEN RMul(Nu(MIN_VOLUME_1H), Fr(5, 10))
                      ELSE Nu(MIN_VOLUME_1H)
          IN  IF ~IsNum(volume_24h) THEN FALSE
              ELSE IF RLe(base, volume_24h) THEN TRUE
              ELSE IF ~IsNum(volume_1h) THEN FALSE
              ELSE IF RLt(Nu(0), volume_1h) /\ RLe(RMul(base, Fr(1, 10)), volume_1h) THEN TRUE
              ELSE IF ~IsStr(source) THEN FALSE
              ELSE IsTrendingOrDetailed(source.s) /\ RLe(RMul(base, Fr(2, 10)), volume_24h)

\* the integer "growth indicator" of TokenFilter._check_volume_growth
growth_indicators(token) ==
    LET c1  == Get(token, "price_change_1h", Nu(0))
        c24 == Get(token, "price_change_24h", Nu(0))
        c7  == Get(token, "price_change_7d", Nu(0))
        src == Get(token, "source", St("")).s
        mc  == Get(token, "market_cap", Nu(0))
        g   == Nu(MIN_VOLUME_GROWTH)
    IN    (IF RLt(RMul(g, Fr(5, 10)), c1) THEN 2 ELSE IF RLt(Nu(0), c1) THEN 1 ELSE 0)
        + (IF RLt(g, c24) THEN 2 ELSE IF RLt(RMul(g, Fr(3, 10)), c24) THEN 1 ELSE 0)
        + (IF RLt(RMul(g, Nu(2)), c7) THEN 1 ELSE 0)
        + (IF RLt(c7, Nu(0)) /\ RLt(Nu(20), c24) THEN 2 ELSE 0)
        + (IF Contains(Lower(src), "trending") THEN 1 ELSE 0)
        + (IF RLt(mc, Nu(200000)) /\ RLt(Nu(10), c24) THEN 1 ELSE 0)

\* a momentum check that asks for two growth indicators
_check_volume_growth_strict(token) ==
    IF \/ ~IsNum(Get(token, "price_change_1h", Nu(0)))
       \/ ~IsNum(Get(token, "price_change_24h", Nu(0)))
       \/ ~IsNum(Get(token, "price_change_7d", Nu(0)))
       \/ ~IsStr(Get(token, "source", St("")))
       \/ ~IsNum(Get(token, "market_cap", Nu(0)))
    THEN FALSE
    ELSE growth_indicators(token) >= 2

\* TokenFilter._check_volume_growth: any non-numeric change, a non-string
\* source or a non-numeric market cap raises inside the try block: False.
_check_volume_growth(token) ==
    IF \/ ~IsNum(Get(token, "price_change_1h", Nu(0)))
       \/ ~IsNum(Get(token, "price_change_24h", Nu(0)))
       \/ ~IsNum(Get(token, "price_change_7d", Nu(0)))
       \/ ~IsStr(Get(token, "source", St("")))
       \/ ~IsNum(Get(token, "market_cap", Nu(0)))
    THEN FALSE
    ELSE growth_indicators(token) >= 1

\* TokenFilter._check_basic_safety
_check_basic_safety(token) ==
    LET price_usd == Get(token, "price_usd", Nu(0))
        symbol    == Get(token, "symbol", St(""))
        name      == Get(token, "name", St(""))
    IN  IF \E field \in {"symbol", "name", "price_usd"} : ~Truthy(Get(token, field, None))
        THEN FALSE
        ELSE IF ~IsNum(price_usd) THEN FALSE
        ELSE IF RLe(price_usd, Nu(0)) \/ RLt(Nu(1000000), price_usd) THEN FALSE
        ELSE IF ~IsStr(symbol) THEN FALSE
        ELSE IF Len(symbol.s) > 20 \/ Len(symbol.s) < 2 THEN FALSE
        ELSE IF ~IsStr(name) THEN FALSE
        ELSE ~(Len(name.s) > 100 \/ Len(name.s) < 2)

\* a _passes_all_filters without the additional safety checks
_passes_all_filters_unchecked(token, rp, stats) ==
    IF ~_check_market_cap(token, rp) THEN [ret |-> FALSE, stats |-> stats]
    ELSE LET s1 == [stats EXCEPT !.passed_market_cap = @ + 1] IN
    IF ~_check_volume(token) THEN [ret |-> FALSE, stats |-> s1]
    ELSE LET s2 == [s1 EXCEPT !.passed_volume = @ + 1] IN
    IF ~_check_volume_growth(token) THEN [ret |-> FALSE, stats |-> s2]
    ELSE [ret |-> TRUE, stats |-> [s2 EXCEPT !.passed_volume_growth = @ + 1]]

\* TokenFilter._passes_all_filters: the verdict and the counters it leaves
_passes_all_filters(token, rp, stats) ==
    IF ~_check_market_cap(token, rp) THEN [ret |-> FALSE, stats |-> stats]
    ELSE LET s1 == [stats EXCEPT !.passed_market_cap = @ + 1] IN
    IF ~_check_volume(token) THEN [ret |-> FALSE, stats |-> s1]
    ELSE LET s2 == [s1 EXCEPT !.passed_volume = @ + 1] IN
    IF ~_check_volume_growth(token) THEN [ret |-> FALSE, stats |-> s2]
    ELSE LET s3 == [s2 EXCEPT !.passed_volume_growth = @ + 1] IN
    [ret |-> _check_basic_safety(token), stats |-> s3]

\* the for loop of apply_all_filters from token i on
RECURSIVE FilterLoop(_, _, _, _, _)
FilterLoop(tokens, i, rp, filtered_tokens, stats) ==
    IF i > Len(tokens) THEN [ret |-> filtered_tokens, stats |-> stats]
    ELSE Local(_passes_all_filters(tokens[i], rp, stats), LAMBDA r :
           IF r.ret
           THEN FilterLoop(tokens, i + 1, rp, Append(filtered_tokens, tokens[i]),
                           [r.stats EXCEPT !.passed_all_filters = @ + 1])
           ELSE FilterLoop(tokens, i + 1, rp, filtered_tokens, r.stats))

\* a loop that returns the survivors newest first
apply_all_filters_newest_first(tokens, rp, stats) ==
    Local(FilterLoop(tokens, 1, rp, <<>>, [stats EXCEPT !.total_processed = Len(tokens)]),
          LAMBDA r : [ret   |-> [i \in 1..Len(r.ret) |-> r.ret[Len(r.ret) + 1 - i]],
                      stats |-> r.stats])

\* a loop that loses the last survivor
apply_all_filters_dropping_last(tokens, rp, stats) ==
    Local(FilterLoop(tokens, 1, rp, <<>>, [stats EXCEPT !.total_processed = Len(tokens)]),
          LAMBDA r : [ret |-> SubSeq(r.ret, 1, Len(r.ret) - 1), stats |-> r.stats])

\* an apply_all_filters that keeps no more tokens than the profile's
\* max_tokens_per_scan
apply_all_filters_limited(tokens, rp, stats) ==
    Local(FilterLoop(tokens, 1, rp, <<>>, [stats EXCEPT !.total_processed = Len(tokens)]), LAMBDA r :
        [ret |-> IF rp # None /\ Len(r.ret) > rp.max_tokens_per_scan
                 THEN SubSeq(r.ret, 1, rp.max_tokens_per_scan) ELSE r.ret,
         stats |-> r.stats])

\* TokenFilter.apply_all_filters: the list returned and the counters after it
apply_all_filters(tokens, rp, stats) ==
    FilterLoop(tokens, 1, rp, <<>>, [stats EXCEPT !.total_processed = Len(tokens)])

\* TokenFilter.__init__ / reset_stats
ZeroStats ==
    [total_processed |-> 0, passed_market_cap |-> 0, passed_volume |-> 0,
     passed_volume_growth |-> 0, passed_all_filters |-> 0]

----------------------------------------------------------------------------
(* scoring.py: TokenScorer *)

Clamp(lo, x, hi) == RMax(lo, RMin(hi, x))     \* max(lo, min(hi, x))

\* TokenScorer._score_market_cap; an exception returns 0
_score_market_cap(token) ==
    LET market_cap == Get(token, "market_cap", Nu(0)) IN
    IF ~IsNum(market_cap) THEN Nu(0)
    ELSE IF RLe(market_cap, Nu(0)) THEN Nu(0)
    ELSE LET optimal_mc   == Fr(MIN_MARKET_CAP + MAX_MARKET_CAP, 2)
             distance     == RAbs(RSub(market_cap, optimal_mc))
             max_distance == Nu(MAX_MARKET_CAP - MIN_MARKET_CAP)
         IN  Clamp(Nu(0), RSub(Nu(1), RDiv(distance, max_distance)), Nu(1))

\* TokenScorer._score_volume_growth; an exception returns 0. The market cap is
\* read (default 1) only when the 24h volume is positive.
_score_volume_growth(token) ==
    LET c1  == Get(token, "price_change_1h", Nu(0))
        c24 == Get(token, "price_change_24h", Nu(0))
        c7  == Get(token, "price_change_7d", Nu(0))
        v24 == Get(token, "volume_24h", Nu(0))
        mc  == Get(token, "market_cap", Nu(1))
    IN  IF ~IsNum(c1) \/ ~IsNum(c24) \/ ~IsNum(c7) \/ ~IsNum(v24) THEN Nu(0)
        ELSE IF RLt(Nu(0), v24) /\ ~IsNum(mc) THEN Nu(0)
        ELSE
          LET a == IF RLt(Nu(0), c1) THEN RMin(Fr(5, 10), RDiv(c1, Nu(100))) ELSE Nu(0)
              b == IF RLt(Nu(0), c24) THEN RMin(Fr(4, 10), RDiv(c24, Nu(150))) ELSE Nu(0)
              c == IF RLt(c7, Nu(0)) /\ RLt(Nu(20), c24) THEN Fr(2, 10) ELSE Nu(0)
              d == IF RLt(Nu(0), v24) /\ RLt(Nu(0), mc)
                   THEN LET volume_ratio == RDiv(v24, mc)
                        IN  IF RLt(Fr(1, 10), volume_ratio)
                              THEN RMin(Fr(3, 10), RMul(volume_ratio, Nu(2)))
                            ELSE IF RLt(Fr(5, 100), volume_ratio)
                              THEN RMin(Fr(2, 10), RMul(volume_ratio, Nu(3)))
                            ELSE IF RLt(Fr(1, 100), volume_ratio)
                              THEN RMin(Fr(1, 10), RMul(volume_ratio, Nu(5)))
                            ELSE Nu(0)
                   ELSE Nu(0)
          IN  Clamp(Nu(0), RAdd(RAdd(a, b), RAdd(c, d)), Nu(1))

\* TokenScorer._score_liquidity_lock; an exception returns 0.5
_score_liquidity_lock(token) ==
    LET liquidity_usd == Get(token, "liquidity_usd", Nu(0))
        market_cap    == Get(token, "market_cap", Nu(1))
    IN  IF ~IsNum(liquidity_usd) THEN Fr(5, 10)
        ELSE IF RLe(liquidity_usd, Nu(0))
          THEN IF Truthy(Get(token, "mock_token", Bo(FALSE))) THEN Fr(5, 10) ELSE Fr(3, 10)
        ELSE IF ~IsNum(market_cap) THEN Fr(5, 10)
        ELSE
          LET liquidity_ratio == IF RLt(Nu(0), market_cap)
                                 THEN RDiv(liquidity_usd, market_cap) ELSE Nu(0)
          IN  IF RLt(Fr(30, 100), liquidity_ratio) THEN Nu(1)
              ELSE IF RLt(Fr(15, 100), liquidity_ratio) THEN Fr(8, 10)
              ELSE IF RLt(Fr(5, 100), liquidity_ratio) THEN Fr(6, 10)
              ELSE IF RLt(Fr(1, 100), liquidity_ratio) THEN Fr(4, 10)
              ELSE Fr(2, 10)

\* TokenScorer._score_contract_security; an exception returns 0.5
_score_contract_security(token) ==
    LET contract_address == Get(token, "contract_address", St(""))
        source           == Get(token, "source", St(""))
    IN  IF Truthy(contract_address) /\ ~IsStr(contract_address) THEN Fr(5, 10)
        ELSE IF ~IsStr(source) THEN Fr(5, 10)
        ELSE
          LET a == IF Truthy(contract_address) /\ Len(contract_address.s) > 20 THEN Fr(4, 10)
                   ELSE IF Truthy(contract_address) THEN Fr(2, 10)
                   ELSE Nu(0)
              b == IF Truthy(Get(token, "verified", Bo(FALSE))) THEN Fr(3, 10) ELSE Fr(1, 10)
              c == IF source.s \in {"dexscreener", "coingecko", "coingecko_detailed"}
                     THEN Fr(3, 10)
                   ELSE IF source.s = "mock_data" THEN Fr(5, 10)
                   ELSE Fr(1, 10)
              d == IF IsTrendingOrDetailed(source.s) THEN Fr(2, 10) ELSE Nu(0)
          IN  Clamp(Fr(2, 10), RAdd(RAdd(a, b), RAdd(c, d)), Nu(1))

\* TokenScorer._score_whale_activity; an exception returns 0.4
_score_whale_activity(token) ==
    LET volume_24h == Get(token, "volume_24h", Nu(0))
        market_cap == Get(token, "market_cap", Nu(1))
    IN  IF ~IsNum(market_cap) \/ ~IsNum(volume_24h) THEN Fr(4, 10)
        ELSE IF RLt(Nu(0), market_cap)
          THEN LET volume_ratio == RDiv(volume_24h, market_cap)
               IN  IF RLt(Nu(1), volume_ratio) THEN Nu(1)
                   ELSE IF RLt(Fr(5, 10), volume_ratio) THEN Fr(8, 10)
                   ELSE IF RLt(Fr(2, 10), volume_ratio) THEN Fr(6, 10)
                   ELSE IF RLt(Fr(1, 10), volume_ratio) THEN Fr(5, 10)
                   ELSE Fr(4, 10)
        ELSE IF RLt(Nu(WHALE_THRESHOLD), volume_24h)
          THEN RMin(Fr(8, 10), RDiv(volume_24h, Nu(WHALE_THRESHOLD * 5)))
        ELSE Fr(4, 10)

\* TokenScorer._score_social_signals; an exception returns 0.3
_score_social_signals(token) ==
    LET market_cap_rank == Get(token, "market_cap_rank", None)
        source          == Get(token, "source", St(""))
        c24             == Get(token, "price_change_24h", Nu(0))
    IN  IF Truthy(market_cap_rank) /\ ~IsNum(market_cap_rank) THEN Fr(3, 10)
        ELSE IF ~IsStr(source) \/ ~IsNum(c24) THEN Fr(3, 10)
        ELSE
          LET a == IF Truthy(Get(token, "twitter", St(""))) THEN Fr(3, 10) ELSE Nu(0)
              b == IF Truthy(Get(token, "telegram", St(""))) THEN Fr(3, 10) ELSE Nu(0)
              c == IF Truthy(Get(token, "homepage", St(""))) THEN Fr(2, 10) ELSE Nu(0)
              d == IF ~Truthy(market_cap_rank) THEN Nu(0)
                   ELSE IF RLe(market_cap_rank, Nu(500)) THEN Fr(4, 10)
                   ELSE IF RLe(market_cap_rank, Nu(1000)) THEN Fr(3, 10)
                   ELSE IF RLe(market_cap_rank, Nu(2000)) THEN Fr(2, 10)
                   ELSE Fr(1, 10)
              e == IF Contains(Lower(source.s), "trending") THEN Fr(3, 10)
                   ELSE IF Contains(Lower(source.s), "detailed") THEN Fr(2, 10)
                   ELSE Nu(0)
              f == IF RLt(Nu(50), c24) THEN Fr(3, 10)
                   ELSE IF RLt(Nu(20), c24) THEN Fr(2, 10)
                   ELSE Nu(0)
          IN  Clamp(Fr(3, 10), RAdd(RAdd(RAdd(a, b), RAdd(c, d)), RAdd(e, f)), Nu(1))

\* the scores dict of calculate_score
score_breakdown(token) ==
    [market_cap        |-> _score_market_cap(token),
     volume_growth     |-> _score_volume_growth(token),
     liquidity_lock    |-> _score_liquidity_lock(token),
     contract_security |-> _score_contract_security(token),
     whale_activity    |-> _score_whale_activity(token),
     social_signals    |-> _score_social_signals(token)]

\* total_score * 100: the weighted sum, w being the weights in hundredths
total_score(scores, w) ==
    LET term(c) == RMul(scores[c], Nu(w[c])) IN
    RAdd(RAdd(RAdd(term("market_cap"), term("volume_growth")),
              RAdd(term("liquidity_lock"), term("contract_security"))),
         RAdd(term("whale_activity"), term("social_signals")))

\* a calculate_score that forgets to normalise to 0..100
calculate_score_unclamped(token, w) ==
    Local(score_breakdown(token), LAMBDA scores :
    Local(total_score(scores, w), LAMBDA final_score :
      [ret   |-> final_score,
       token |-> With(With(token, "score_breakdown", [t |-> "dict", d |-> scores]),
                      "score", final_score)]))

\* a calculate_score that explains only the tokens that reach the threshold
calculate_score_explaining_passed(token, w) ==
    Local(score_breakdown(token), LAMBDA scores :
    Local(RMin(Nu(100), RMax(Nu(0), total_score(scores, w))), LAMBDA final_score :
      [ret   |-> final_score,
       token |-> IF RLe(Nu(SCORE_THRESHOLD), final_score)
                 THEN With(With(token, "score_breakdown", [t |-> "dict", d |-> scores]),
                           "score", final_score)
                 ELSE With(token, "score", final_score)]))

\* TokenScorer.calculate_score: the value returned and the token it leaves.
\* Every _score_* method catches its own exceptions and the weights are
\* numbers, so the except clause, which returns 0 and leaves the token as it
\* was, is never entered.
calculate_score(token, w) ==
    Local(score_breakdown(token), LAMBDA scores :
    Local(RMin(Nu(100), RMax(Nu(0), total_score(scores, w))), LAMBDA final_score :
      [ret   |-> final_score,
       token |-> With(With(token, "score_breakdown", [t |-> "dict", d |-> scores]),
                      "score", final_score)]))

\* list.sort(key=score, reverse=True): a stable insertion of x into a list
\* already in descending order, after every element whose score is >= x's
RECURSIVE InsertDescending(_, _)
InsertDescending(sorted, x) ==
    IF sorted = <<>> THEN <<x>>
    ELSE IF RLe(Get(x, "score", Nu(0)), Get(sorted[Len(sorted)], "score", Nu(0)))
      THEN Append(sorted, x)
    ELSE Append(InsertDescending(SubSeq(sorted, 1, Len(sorted) - 1), x), sorted[Len(sorted)])

RECURSIVE SortDescending(_)
SortDescending(tokens) ==
    IF tokens = <<>> THEN <<>>
    ELSE InsertDescending(SortDescending(SubSeq(tokens, 1, Len(tokens) - 1)),
                          tokens[Len(tokens)])

\* the for loop of score_tokens from token i on: the tokens kept, and every
\* token as calculate_score left it
RECURSIVE ScoreLoop(_, _, _, _, _)
ScoreLoop(tokens, i, w, scored_tokens, touched) ==
    IF i > Len(tokens) THEN [ret |-> scored_tokens, tokens |-> touched]
    ELSE Local(calculate_score(tokens[i], w), LAMBDA r :
           ScoreLoop(tokens, i + 1, w,
                     IF RLe(Nu(SCORE_THRESHOLD), r.ret)
                     THEN Append(scored_tokens, r.token) ELSE scored_tokens,
                     Append(touched, r.token)))

\* TokenScorer.score_tokens(self, tokens)
score_tokens(tokens, w) ==
    Local(ScoreLoop(tokens, 1, w, <<>>, <<>>), LAMBDA r :
      [ret |-> SortDescending(r.ret), tokens |-> r.tokens])

\* a call score_tokens(tokens, *extra): the method takes no argument besides
\* the token list, so any extra positional argument raises TypeError before
\* the body runs
score_tokens_call(tokens, extra, w) ==
    IF Len(extra) > 0
    THEN [raised |-> TRUE, ret |-> <<>>, tokens |-> tokens]
    ELSE Local(score_tokens(tokens, w), LAMBDA r :
           [raised |-> FALSE, ret |-> r.ret, tokens |-> r.tokens])

----------------------------------------------------------------------------
(* rug_detector.py: RugPullDetector *)

suspicious_names ==
    {"safemoon", "babydoge", "elonmusk", "dogelon", "shibainu", "floki", "moon", "safe", "baby"}
scam_symbols_without_rug == {"SCAM", "FAKE", "TEST", "SPAM"}
scam_symbols     == {"SCAM", "RUG", "FAKE", "TEST", "SPAM"}
red_flag_domains == {"bit.ly", "tinyurl.com", "t.me", "telegram.me"}
good_domains     == {".com", ".org", ".net", ".io", ".fi", ".xyz"}
audit_firms      == {"certik", "hacken", "slowmist", "quantstamp", "consensys"}
professional     == {"protocol", "network", "chain", "dao", "defi"}

Adjust(score_adjustment, risk_factors, legitimacy_factors) ==
    [score_adjustment |-> score_adjustment, risk_factors |-> risk_factors,
     legitimacy_factors |-> legitimacy_factors]

\* the sum of a sequence of Adjust records, lists concatenated in order
RECURSIVE SumAdjust(_)
SumAdjust(parts) ==
    IF parts = <<>> THEN Adjust(0, <<>>, <<>>)
    ELSE Local(SumAdjust(SubSeq(parts, 1, Len(parts) - 1)), LAMBDA h :
         Local(parts[Len(parts)], LAMBDA l :
           Adjust(h.score_adjustment + l.score_adjustment,
                  h.risk_factors \o l.risk_factors,
                  h.legitimacy_factors \o l.legitimacy_factors)))

Risk(n, text)  == Adjust(n, <<text>>, <<>>)
Legit(n, text) == Adjust(n, <<>>, <<text>>)
Nothing        == Adjust(0, <<>>, <<>>)

\* RugPullDetector._analyze_contract at wall-clock day today. created_at is a
\* value [t |-> "iso", day, aware]: an ISO timestamp of that day, with a zone
\* designator or not; subtracting an aware datetime from datetime.now() raises
\* inside the inner try, which passes.
_analyze_contract(token, today) ==
    LET contract_address == Get(token, "contract_address", St(""))
        created_at       == Get(token, "created_at", None)
    IN  IF ~IsStr(Get(token, "chain", St(""))) THEN Adjust(-20, <<"Contract analysis failed">>, <<>>)
        ELSE IF ~Truthy(contract_address) THEN Risk(-20, "No contract address available")
        ELSE SumAdjust(<<
               IF Truthy(Get(token, "verified", Bo(FALSE)))
                 THEN Legit(10, "Contract is verified")
                 ELSE Risk(-15, "Contract not verified"),
               IF created_at.t = "iso" /\ ~created_at.aware
                 THEN LET age_days == today - created_at.day
                      IN  IF age_days < 1 THEN Risk(-25, "Token created less than 24 hours ago")
                          ELSE IF age_days < 7 THEN Risk(-10, "Token less than 1 week old")
                          ELSE IF age_days > 30 THEN Legit(5, "Token exists for days")
                          ELSE Nothing
                 ELSE Nothing,
               IF Truthy(Get(token, "is_proxy", Bo(FALSE)))
                 THEN Risk(-5, "Uses proxy contract pattern") ELSE Nothing >>)

\* a liquidity analysis whose except clause returns no adjustment at all
_analyze_liquidity_silent(token) ==
    LET liquidity_usd == Get(token, "liquidity_usd", Nu(0))
        market_cap    == Get(token, "market_cap", Nu(0))
        info          == Get(token, "additional_info", St(""))
        failed        == Nothing
    IN  IF ~IsNum(liquidity_usd) THEN failed
        ELSE IF RLe(liquidity_usd, Nu(0)) THEN Risk(-15, "No liquidity information available")
        ELSE IF ~IsNum(market_cap) THEN failed
        ELSE SumAdjust(<<
               IF RLt(Nu(0), market_cap)
                 THEN LET liquidity_ratio == RDiv(liquidity_usd, market_cap)
                      IN  IF RLt(liquidity_ratio, Fr(5, 100)) THEN Risk(-20, "Very low liquidity ratio")
                          ELSE IF RLt(liquidity_ratio, Fr(10, 100)) THEN Risk(-10, "Low liquidity ratio")
                          ELSE IF RLt(Fr(30, 100), liquidity_ratio) THEN Legit(10, "Good liquidity ratio")
                          ELSE Nothing
                 ELSE Nothing,
               IF RLt(liquidity_usd, Nu(1000)) THEN Risk(-25, "Very low liquidity")
                 ELSE IF RLt(liquidity_usd, Nu(5000)) THEN Risk(-10, "Low liquidity")
                 ELSE IF RLt(Nu(50000), liquidity_usd) THEN Legit(5, "Good liquidity")
                 ELSE Nothing,
               IF Truthy(Get(token, "liquidity_locked", Bo(FALSE)))
                 THEN Legit(15, "Liquidity is locked")
                 ELSE IF IsStr(info) /\ Contains(Lower(info.s), "lock")
                   THEN Legit(10, "Liquidity lock mentioned")
                 ELSE Risk(-10, "No liquidity lock information") >>)

\* RugPullDetector._analyze_liquidity
_analyze_liquidity(token) ==
    LET liquidity_usd == Get(token, "liquidity_usd", Nu(0))
        market_cap    == Get(token, "market_cap", Nu(0))
        info          == Get(token, "additional_info", St(""))
        failed        == Adjust(-10, <<"Liquidity analysis failed">>, <<>>)
    IN  IF ~IsNum(liquidity_usd) THEN failed
        ELSE IF RLe(liquidity_usd, Nu(0)) THEN Risk(-15, "No liquidity information available")
        ELSE IF ~IsNum(market_cap) THEN failed
        ELSE SumAdjust(<<
               IF RLt(Nu(0), market_cap)
                 THEN LET liquidity_ratio == RDiv(liquidity_usd, market_cap)
                      IN  IF RLt(liquidity_ratio, Fr(5, 100)) THEN Risk(-20, "Very low liquidity ratio")
                          ELSE IF RLt(liquidity_ratio, Fr(10, 100)) THEN Risk(-10, "Low liquidity ratio")
                          ELSE IF RLt(Fr(30, 100), liquidity_ratio) THEN Legit(10, "Good liquidity ratio")
                          ELSE Nothing
                 ELSE Nothing,
               IF RLt(liquidity_usd, Nu(1000)) THEN Risk(-25, "Very low liquidity")
                 ELSE IF RLt(liquidity_usd, Nu(5000)) THEN Risk(-10, "Low liquidity")
                 ELSE IF RLt(Nu(50000), liquidity_usd) THEN Legit(5, "Good liquidity")
                 ELSE Nothing,
               IF Truthy(Get(token, "liquidity_locked", Bo(FALSE)))
                 THEN Legit(15, "Liquidity is locked")
                 ELSE IF IsStr(info) /\ Contains(Lower(info.s), "lock")
                   THEN Legit(10, "Liquidity lock mentioned")
                 ELSE Risk(-10, "No liquidity lock information") >>)

IsDigit(c)  == Contains("0123456789", c)
IsLetter(c) == Contains("abcdefghijklmnopqrstuvwxyzABCDEFGHIJKLMNOPQRSTUVWXYZ", c)

\* re.search(r'[0-9]{3,}', s) or re.search(r'[^a-zA-Z0-9\s]{3,}', s)
ExcessiveNumbersOrSymbols(s) ==
    \E i \in 1..(Len(s) - 2) :
        LET c(j) == SubSeq(s, j, j) IN
        \/ \A j \in i..(i + 2) : IsDigit(c(j))
        \/ \A j \in i..(i + 2) : ~IsDigit(c(j)) /\ ~IsLetter(c(j)) /\ c(j) # " "

\* n copies of the adjustment a
RECURSIVE Times(_, _)
Times(n, a) == IF n = 0 THEN <<>> ELSE Append(Times(n - 1, a), a)

\* RugPullDetector._analyze_token_name
_analyze_token_name(token) ==
    LET name_v   == Get(token, "name", St(""))
        symbol_v == Get(token, "symbol", St(""))
    IN  IF ~IsStr(name_v) \/ ~IsStr(symbol_v) THEN Nothing
        ELSE
          LET name   == Lower(name_v.s)
              symbol == Lower(symbol_v.s)
              hits   == Cardinality({x \in suspicious_names : Contains(name, x) \/ Contains(symbol, x)})
              scams  == Cardinality({x \in scam_symbols : Contains(symbol, Lower(x))})
          IN  SumAdjust(
                   Times(hits, Risk(-15, "Suspicious name pattern"))
                \o Times(scams, Risk(-30, "Scam symbol detected"))
                \o << IF ExcessiveNumbersOrSymbols(name)
                        THEN Risk(-10, "Name contains excessive numbers or symbols") ELSE Nothing,
                      IF Len(symbol) > 10 THEN Risk(-5, "Unusually long symbol")
                        ELSE IF Len(symbol) < 2 THEN Risk(-10, "Unusually short symbol")
                        ELSE Nothing,
                      IF \E word \in professional : Contains(name, word)
                        THEN Legit(5, "Professional naming convention") ELSE Nothing >>)

\* RugPullDetector._analyze_trading_patterns
_analyze_trading_patterns(token) ==
    LET c1  == Get(token, "price_change_1h", Nu(0))
        c24 == Get(token, "price_change_24h", Nu(0))
        v24 == Get(token, "volume_24h", Nu(0))
        mc  == Get(token, "market_cap", Nu(0))
    IN  IF ~IsNum(c1) \/ ~IsNum(mc) \/ ~IsNum(c24) THEN Nothing
        ELSE IF RLt(Nu(0), mc) /\ ~IsNum(v24) THEN Nothing
        ELSE SumAdjust(<<
               IF RLt(Nu(500), c1) THEN Risk(-20, "Extreme price pump")
                 ELSE IF RLt(Nu(200), c1) THEN Risk(-10, "High price volatility")
                 ELSE Nothing,
               IF RLt(Nu(0), mc) /\ RLt(Nu(0), v24)
                 THEN LET ratio == RDiv(v24, mc)
                      IN  IF RLt(Nu(5), ratio) THEN Risk(-15, "Extremely high volume ratio")
                          ELSE IF RLt(Nu(2), ratio) THEN Risk(-5, "High volume ratio")
                          ELSE IF RLe(Fr(1, 10), ratio) /\ RLe(ratio, Nu(1))
                            THEN Legit(5, "Healthy volume ratio")
                          ELSE Nothing
                 ELSE Nothing,
               IF RLt(Nu(0), c24) /\ RLe(c24, Nu(100)) THEN Legit(5, "Reasonable 24h growth")
                 ELSE IF RLt(Nu(1000), c24) THEN Risk(-25, "Extreme price spike")
                 ELSE Nothing >>)

\* RugPullDetector._analyze_social_presence
_analyze_social_presence(token) ==
    LET website      == Get(token, "website", St(""))
        social_links == Get(token, "social_links", [t |-> "dict", d |-> <<>>])
        audit_info   == Get(token, "audit_info", St(""))
    IN  IF (Truthy(website) /\ ~IsStr(website)) \/ (Truthy(audit_info) /\ ~IsStr(audit_info))
        THEN Nothing
        ELSE SumAdjust(<<
               IF Truthy(website)
                 THEN IF \E domain \in red_flag_domains : Contains(website.s, domain)
                        THEN Risk(-10, "Uses suspicious domain for website")
                      ELSE IF \E domain \in good_domains : Contains(website.s, domain)
                        THEN Legit(5, "Has professional website")
                      ELSE Nothing
                 ELSE Risk(-5, "No website provided"),
               IF social_links.t = "dict"
                 THEN LET social_count ==
                            Cardinality({k \in DOMAIN social_links.d : Truthy(social_links.d[k])})
                      IN  IF social_count >= 3 THEN Legit(10, "Good social presence")
                          ELSE IF social_count >= 1 THEN Legit(5, "Some social presence")
                          ELSE Risk(-10, "No social media presence")
                 ELSE Nothing,
               IF Truthy(audit_info)
                 THEN IF \E firm \in audit_firms : Contains(Lower(audit_info.s), firm)
                        THEN Legit(20, "Audited by recognized firm")
                        ELSE Legit(10, "Has audit information")
                 ELSE Nothing >>)

\* RugPullDetector._get_recommendation
_get_recommendation(security_score) ==
    IF security_score >= 80 THEN "SAFE - Low risk, suitable for investment"
    ELSE IF security_score >= 60 THEN "CAUTION - Medium risk, do your own research"
    ELSE IF security_score >= 40 THEN "HIGH RISK - Only for experienced traders"
    ELSE IF security_score >= 20 THEN "VERY HIGH RISK - Avoid unless expert"
    ELSE "AVOID - Likely scam or rug pull"

Max(a, b) == IF a >= b THEN a ELSE b
Min(a, b) == IF a <= b THEN a ELSE b

\* the dict returned by the except clause of analyze_token_security
AnalysisFailed ==
    [security_score |-> 0, risk_level |-> "UNKNOWN", risk_factors |-> <<"Analysis failed">>,
     legitimacy_factors |-> <<>>, is_likely_rug |-> TRUE, is_safe_to_trade |-> FALSE,
     recommendation |-> "AVOID - Analysis failed"]

\* an analysis that forgets to normalise the score to 0..100
analyze_token_security_unclamped(token, today) ==
    Local(SumAdjust(<<_analyze_contract(token, today), _analyze_liquidity(token),
                      _analyze_token_name(token), _analyze_trading_patterns(token),
                      _analyze_social_presence(token)>>), LAMBDA total :
    Local(100 + total.score_adjustment, LAMBDA security_score :
      [security_score     |-> security_score,
       risk_level         |-> IF security_score >= 80 THEN "LOW"
                              ELSE IF security_score >= 60 THEN "MEDIUM"
                              ELSE IF security_score >= 40 THEN "HIGH"
                              ELSE "CRITICAL",
       risk_factors       |-> total.risk_factors,
       legitimacy_factors |-> total.legitimacy_factors,
       is_likely_rug      |-> security_score < 30,
       is_safe_to_trade   |-> security_score >= 60,
       recommendation     |-> _get_recommendation(security_score)]))

\* RugPullDetector.analyze_token_security at wall-clock day today. Every
\* adjustment is a whole number, so the score is an integer. Each of the five
\* analyses catches its own exceptions and returns a dict of the same shape,
\* so nothing raises in the body and the method's except clause (score 0, risk
\* level UNKNOWN, "Analysis failed") is never entered.
analyze_token_security(token, today) ==
    Local(SumAdjust(<<_analyze_contract(token, today), _analyze_liquidity(token),
                      _analyze_token_name(token), _analyze_trading_patterns(token),
                      _analyze_social_presence(token)>>), LAMBDA total :
    Local(Max(0, Min(100, 100 + total.score_adjustment)), LAMBDA security_score :
      [security_score     |-> security_score,
       risk_level         |-> IF security_score >= 80 THEN "LOW"
                              ELSE IF security_score >= 60 THEN "MEDIUM"
                              ELSE IF security_score >= 40 THEN "HIGH"
                              ELSE "CRITICAL",
       risk_factors       |-> total.risk_factors,
       legitimacy_factors |-> total.legitimacy_factors,
       is_likely_rug      |-> security_score < 30,
       is_safe_to_trade   |-> security_score >= 60,
       recommendation     |-> _get_recommendation(security_score)]))

\* a safety check that forgets the likely-rug flag
is_token_safe_by_score(token, min_security_score, today) ==
    Local(analyze_token_security(token, today), LAMBDA analysis :
      analysis.security_score >= min_security_score)

\* RugPullDetector.is_token_safe
is_token_safe(token, min_security_score, today) ==
    Local(analyze_token_security(token, today), LAMBDA analysis :
      analysis.security_score >= min_security_score /\ ~analysis.is_likely_rug)

----------------------------------------------------------------------------
(* storage.py: TokenStorage *)

RETENTION_DAYS == 7      \* cleanup_old_notifications(days=7)
HISTORY_LIMIT  == 100    \* scan records kept by add_scan_record

\* TokenStorage.is_token_notified
is_token_notified(token_address, nt) == Lower(token_address) \in DOMAIN nt

\* an add_notified_token that stores the key as given
add_notified_token_as_given(token_address, token_data, nt, total, today, saved) ==
    [nt    |-> (token_address :> [token_data |-> token_data, notified_at |-> today,
                                  score |-> Get(token_data, "score", Nu(0))]) @@ nt,
     total |-> total + 1,
     ret   |-> saved]

\* TokenStorage.add_notified_token on day today: the ledger and the counter it
\* leaves, and its return value, which is save_data's (saved)
add_notified_token(token_address, token_data, nt, total, today, saved) ==
    [nt    |-> (Lower(token_address) :> [token_data |-> token_data, notified_at |-> today,
                                         score |-> Get(token_data, "score", Nu(0))]) @@ nt,
     total |-> total + 1,
     ret   |-> saved]

\* a cleanup whose comparison is the wrong way round
cleanup_keeping_old(nt, today) ==
    [k \in {a \in DOMAIN nt : ~(nt[a].notified_at > today - RETENTION_DAYS)} |-> nt[k]]

\* TokenStorage.cleanup_old_notifications on day today: the ledger it leaves
cleanup_old_notifications(nt, today) ==
    [k \in {a \in DOMAIN nt : ~(nt[a].notified_at < today - RETENTION_DAYS)} |-> nt[k]]

\* an add_scan_record that trims the history to its first records
add_scan_record_keeping_oldest(history, scan_summary, today) ==
    LET scan_record == [timestamp          |-> today,
                        tokens_scanned     |-> Get(scan_summary, "tokens_scanned", 0),
                        tokens_filtered    |-> Get(scan_summary, "tokens_filtered", 0),
                        notifications_sent |-> Get(scan_summary, "notifications_sent", 0)]
        longer == Append(history, scan_record)
    IN  IF Len(longer) > HISTORY_LIMIT
        THEN SubSeq(longer, 1, HISTORY_LIMIT)
        ELSE longer

\* TokenStorage.add_scan_record: the history it leaves
add_scan_record(history, scan_summary, today) ==
    LET scan_record == [timestamp          |-> today,
                        tokens_scanned     |-> Get(scan_summary, "tokens_scanned", 0),
                        tokens_filtered    |-> Get(scan_summary, "tokens_filtered", 0),
                        notifications_sent |-> Get(scan_summary, "notifications_sent", 0)]
        longer == Append(history, scan_record)
    IN  IF Len(longer) > HISTORY_LIMIT
        THEN SubSeq(longer, Len(longer) - HISTORY_LIMIT + 1, Len(longer))
        ELSE longer

----------------------------------------------------------------------------
(* scanner.py: TokenScanner *)

\* a loop that also remembers the address and symbol of a token it skips
RECURSIVE DedupLoopMarkingSkipped(_, _, _, _, _)
DedupLoopMarkingSkipped(tokens, i, seen_addresses, seen_symbols, unique_tokens) ==
    IF i > Len(tokens) THEN [raised |-> FALSE, ret |-> unique_tokens]
    ELSE IF \/ ~IsStr(Get(tokens[i], "contract_address", St("")))
            \/ ~IsStr(Get(tokens[i], "symbol", St("")))
    THEN [raised |-> TRUE, ret |-> <<>>]
    ELSE LET contract_address == Lower(Get(tokens[i], "contract_address", St("")).s)
             symbol           == Lower(Get(tokens[i], "symbol", St("")).s)
             addresses == IF contract_address # ""
                          THEN seen_addresses \cup {contract_address} ELSE seen_addresses
             symbols   == IF symbol # "" THEN seen_symbols \cup {symbol} ELSE seen_symbols
         IN  IF \/ contract_address # "" /\ contract_address \in seen_addresses
                \/ symbol # "" /\ symbol \in seen_symbols
             THEN DedupLoopMarkingSkipped(tokens, i + 1, addresses, symbols, unique_tokens)
             ELSE DedupLoopMarkingSkipped(tokens, i + 1, addresses, symbols,
                                          Append(unique_tokens, tokens[i]))

\* the for loop of _deduplicate_tokens from token i on; .lower() raises on an
\* address or a symbol that is not a string
RECURSIVE DedupLoop(_, _, _, _, _)
DedupLoop(tokens, i, seen_addresses, seen_symbols, unique_tokens) ==
    IF i > Len(tokens) THEN [raised |-> FALSE, ret |-> unique_tokens]
    ELSE IF \/ ~IsStr(Get(tokens[i], "contract_address", St("")))
            \/ ~IsStr(Get(tokens[i], "symbol", St("")))
    THEN [raised |-> TRUE, ret |-> <<>>]
    ELSE LET contract_address == Lower(Get(tokens[i], "contract_address", St("")).s)
             symbol           == Lower(Get(tokens[i], "symbol", St("")).s)
         IN  IF contract_address # "" /\ contract_address \in seen_addresses
             THEN DedupLoop(tokens, i + 1, seen_addresses, seen_symbols, unique_tokens)
             ELSE IF symbol # "" /\ symbol \in seen_symbols
             THEN DedupLoop(tokens, i + 1, seen_addresses, seen_symbols, unique_tokens)
             ELSE DedupLoop(tokens, i + 1,
                            IF contract_address # ""
                            THEN seen_addresses \cup {contract_address} ELSE seen_addresses,
                            IF symbol # "" THEN seen_symbols \cup {symbol} ELSE seen_symbols,
                            Append(unique_tokens, tokens[i]))

\* a _deduplicate_tokens that counts skipped tokens as seen
_deduplicate_tokens_marking_skipped(tokens) ==
    DedupLoopMarkingSkipped(tokens, 1, {}, {}, <<>>)

\* TokenScanner._deduplicate_tokens
_deduplicate_tokens(tokens) == DedupLoop(tokens, 1, {}, {}, <<>>)

----------------------------------------------------------------------------
(* main.py: GemFinderBot *)

\* the key send_token_notification records a token under: its contract
\* address, else "symbol_" + symbol.lower(), else ""
notification_key(token) ==
    LET contract_address == Get(token, "contract_address", St(""))
        symbol           == Get(token, "symbol", St(""))
    IN  IF Truthy(contract_address) THEN contract_address.s
        ELSE IF Truthy(symbol) THEN "symbol_" \o Lower(symbol.s)
        ELSE ""

\* a should_notify_token that looks the key up as it is written
should_notify_token_by_exact_key(token, nt) ==
    LET contract_address == Get(token, "contract_address", St(""))
        symbol           == Get(token, "symbol", St(""))
    IN  IF ~Truthy(contract_address)
        THEN IF ~Truthy(symbol) THEN FALSE
             ELSE IF ~IsStr(symbol) THEN FALSE
             ELSE ("symbol_" \o symbol.s) \notin DOMAIN nt
        ELSE IF ~IsStr(contract_address) THEN FALSE
        ELSE contract_address.s \notin DOMAIN nt

\* GemFinderBot.should_notify_token; a non-string address or symbol raises
\* inside the try block: False
should_notify_token(token, nt) ==
    LET contract_address == Get(token, "contract_address", St(""))
        symbol           == Get(token, "symbol", St(""))
    IN  IF ~Truthy(contract_address)
        THEN IF ~Truthy(symbol) THEN FALSE
             ELSE IF ~IsStr(symbol) THEN FALSE
             ELSE ~is_token_notified("symbol_" \o Lower(symbol.s), nt)
        ELSE IF ~IsStr(contract_address) THEN FALSE
        ELSE ~is_token_notified(contract_address.s, nt)

\* a send_token_notification that records the token before it looks at the
\* delivery result
send_token_notification_eager(token, delivery, saved, nt, total, today) ==
    LET key == notification_key(token)
        r   == add_notified_token(key, token, nt, total, today, saved)
    IN  IF key # "" THEN [ret |-> delivery = "ok", nt |-> r.nt, total |-> r.total]
        ELSE [ret |-> FALSE, nt |-> nt, total |-> total]

\* GemFinderBot.send_token_notification: delivery is what send_token_alert
\* did ("ok": returned True, "failed": returned False, "raised"); the result
\* is the return value and the ledger left behind
send_token_notification(token, delivery, saved, nt, total, today) ==
    LET contract_address == Get(token, "contract_address", St(""))
        symbol           == Get(token, "symbol", St(""))
        unchanged        == [ret |-> FALSE, nt |-> nt, total |-> total]
    IN  IF delivery # "ok" THEN unchanged
        ELSE IF Truthy(contract_address) /\ ~IsStr(contract_address)
          THEN [unchanged EXCEPT !.ret = TRUE]   \* add_notified_token failed inside, unseen
        ELSE IF ~Truthy(contract_address) /\ Truthy(symbol) /\ ~IsStr(symbol)
          THEN unchanged                         \* symbol.lower() raised
        ELSE IF notification_key(token) = "" THEN unchanged
        ELSE LET r == add_notified_token(notification_key(token), token, nt, total, today, saved)
             IN  [ret |-> TRUE, nt |-> r.nt, total |-> r.total]

----------------------------------------------------------------------------
(* Token records *)

\* test.py: test_filter's good_token and bad_token
good_token ==
    [market_cap |-> Nu(200000), volume_24h |-> Nu(50000), price_change_1h |-> Nu(35),
     symbol |-> St("GOOD"), name |-> St("Good Token"), price_usd |-> Fr(1, 1000)]

bad_token ==
    [market_cap |-> Nu(500000), volume_24h |-> Nu(50000), price_change_1h |-> Nu(35),
     symbol |-> St("BAD"), name |-> St("Bad Token"), price_usd |-> Fr(1, 1000)]

\* tokens that fail one stage each under the default band
huge_cap_token   == With(With(good_token, "market_cap", Nu(4000000)), "symbol", St("HUGE"))
thin_token       == With(With(good_token, "volume_24h", Nu(1000)), "symbol", St("THIN"))
falling_token    == With(With(good_token, "price_change_1h", Nu(-5)), "symbol", St("FALL"))
one_letter_token == With(good_token, "symbol", St("X"))

\* tokens on which one check raises: a volume and a price change that are
\* text, a symbol that is a number
text_volume_token    == With(With(good_token, "volume_24h", St("n/a")), "symbol", St("TXTV"))
text_change_token    == With(With(good_token, "price_change_1h", St("up")), "symbol", St("TXTC"))
numeric_symbol_token == With(good_token, "symbol", Nu(12345))

\* good_token at the edges of the widened bands: trending or detailed
\* sources, 24h changes around 50 in size, market caps that one widening or
\* both let in; and good_token with a source and a 24h change that raise
MarketCapTokens ==
    << With(With(good_token, "market_cap", Nu(2500000)), "source", St("coingecko_trending")),
       With(With(good_token, "market_cap", Nu(40000)), "price_change_24h", Nu(-60)),
       With(With(good_token, "market_cap", Nu(40000)), "price_change_24h", Nu(50)),
       With(With(With(good_token, "market_cap", Nu(16000)), "source", St("Coingecko_Detailed")),
            "price_change_24h", Nu(80)),
       With(With(With(good_token, "market_cap", Nu(12000000)), "source", St("dexscreener_trending")),
            "price_change_24h", Nu(-51)),
       With(With(good_token, "market_cap", Nu(12000000)), "price_change_24h", Nu(80)),
       With(good_token, "source", None),
       With(good_token, "price_change_24h", St("12%")) >>

\* falling_token (1h change -5) with one growth indicator each, with changes
\* at the thresholds that count for nothing, and good_token with a 7d and a
\* 1h change that raise
MomentumTokens ==
    << With(good_token, "price_change_1h", Nu(5)),
       With(With(With(good_token, "price_change_1h", Nu(0)), "price_change_24h", Fr(45, 10)),
            "price_change_7d", Nu(30)),
       With(falling_token, "price_change_24h", Nu(5)),
       With(falling_token, "price_change_7d", Nu(31)),
       With(falling_token, "source", St("coingecko_trending")),
       With(With(falling_token, "source", St("coingecko_detailed")), "price_change_24h", Nu(4)),
       With(good_token, "price_change_7d", None),
       With(With(good_token, "price_change_1h", St("5%")), "price_change_24h", Nu(45)) >>

\* batches handed to apply_all_filters: test_filter's batch, batches with
\* no, some and only rejected tokens, and batches with a token that raises
Batches ==
    { <<>>,
      <<good_token>>,
      <<good_token, bad_token>>,
      <<thin_token, good_token>>,
      <<huge_cap_token, bad_token>>,
      <<falling_token, one_letter_token, good_token>>,
      <<text_volume_token, good_token>>,
      <<good_token, text_change_token, thin_token>>,
      <<numeric_symbol_token, bad_token>>,
      <<bad_token, thin_token, good_token>> }

\* batches handed to a fresh filter: every pair of the tokens at the edges
\* of the market-cap bands and of the momentum check
PredicateBatches ==
    LET tokens == {MarketCapTokens[i] : i \in DOMAIN MarketCapTokens}
                    \cup {MomentumTokens[i] : i \in DOMAIN MomentumTokens} \cup {good_token}
    IN  {<<first, second>> : first \in tokens, second \in tokens}

----------------------------------------------------------------------------
(* Initial states of the components *)

FilterInit ==
    /\ filter_stats = ZeroStats
    /\ risk_profile = None
    /\ f_in = <<>>
    /\ f_out = <<>>
    /\ f_again = <<>>
    /\ f_phase = "idle"
    /\ f_calls = 0

----------------------------------------------------------------------------
(* One TokenFilter instance driven through its public methods *)

\* TokenFilter.set_risk_profile
set_risk_profile(p) ==
    /\ risk_profile' = p
    /\ f_phase' = "idle"
    /\ UNCHANGED <<filter_stats, f_in, f_out, f_again, f_calls>>

\* a call apply_all_filters(tokens)
ApplyAllFilters(tokens) ==
    /\ f_calls < MaxCalls
    /\ \E r \in {apply_all_filters(tokens, risk_profile, filter_stats)} :
           /\ filter_stats' = r.stats
           /\ f_in' = tokens
           /\ f_out' = r.ret
    /\ f_again' = <<>>
    /\ f_phase' = "filtered"
    /\ f_calls' = f_calls + 1
    /\ UNCHANGED risk_profile

\* a second call, on the list the previous call returned
FilterAgain ==
    /\ f_phase = "filtered"
    /\ f_calls < MaxCalls
    /\ \E r \in {apply_all_filters(f_out, risk_profile, filter_stats)} :
           /\ filter_stats' = r.stats
           /\ f_again' = r.ret
    /\ f_phase' = "refiltered"
    /\ f_calls' = f_calls + 1
    /\ UNCHANGED <<risk_profile, f_in, f_out>>

\* TokenFilter.reset_stats
reset_stats ==
    /\ filter_stats # ZeroStats
    /\ filter_stats' = ZeroStats
    /\ f_phase' = "idle"
    /\ UNCHANGED <<risk_profile, f_in, f_out, f_again, f_calls>>

----------------------------------------------------------------------------
(* Inputs of the scorer, the ledger and the scan cycle *)

\* test.py: test_scorer's test_token
test_token ==
    [market_cap |-> Nu(200000), volume_24h |-> Nu(50000), volume_1h |-> Nu(5000),
     price_change_1h |-> Nu(25), price_change_24h |-> Nu(45), liquidity_usd |-> Nu(30000),
     contract_address |-> St("0x123"), verified |-> Bo(TRUE), source |-> St("dexscreener")]

\* a record the scanner could deliver: test_token with the identity fields
gem_token ==
    [symbol |-> St("GEM"), name |-> St("Gem Protocol"), price_usd |-> Fr(1, 1000)] @@ test_token

\* the same token listed without a contract address
listed_token == Without(gem_token, "contract_address")

\* the same contract, its address in another letter case
shouting_token ==
    With(With(gem_token, "contract_address", St("0xABC")), "symbol", St("LOUD"))
quiet_token ==
    With(With(gem_token, "contract_address", St("0xabc")), "symbol", St("LOUD"))

\* a record with neither contract address nor symbol
anonymous_token == Without(listed_token, "symbol")

\* field values the scorer is tried on; Absent leaves the key out
Absent == [t |-> "absent"]

Vary(token, key, v) == IF v = Absent THEN Without(token, key) ELSE With(token, key, v)

ScoreTokens ==
    { Vary(Vary(Vary(Vary(Vary(test_token, "market_cap", mc), "price_change_24h", c24),
                     "volume_24h", v24), "liquidity_usd", liq), "source", src) :
        mc  \in {Absent, Nu(0), Nu(-100), Nu(200000), Nu(525000), Nu(5000000)},
        c24 \in {Absent, Nu(45), Nu(5000), Nu(-80)},
        v24 \in {Absent, Nu(50000), Nu(2000000)},
        liq \in {Absent, Nu(30000)},
        src \in {Absent, St("dexscreener"), St("coingecko_trending")} }

\* weight tables, in hundredths, whose six weights sum to 1.0
WeightTables ==
    { SCORE_WEIGHTS,
      [market_cap |-> 20, volume_growth |-> 20, liquidity_lock |-> 15,
       contract_security |-> 15, whale_activity |-> 15, social_signals |-> 15],
      [market_cap |-> 100, volume_growth |-> 0, liquidity_lock |-> 0,
       contract_security |-> 0, whale_activity |-> 0, social_signals |-> 0],
      [market_cap |-> 150, volume_growth |-> -50, liquidity_lock |-> 0,
       contract_security |-> 0, whale_activity |-> 0, social_signals |-> 0],
      [market_cap |-> -50, volume_growth |-> 150, liquidity_lock |-> 0,
       contract_security |-> 0, whale_activity |-> 0, social_signals |-> 0] }

NoThreshold == -1
Thresholds  == {0, 35, 45, 60}

\* batches handed to score_tokens
\* a record no sub-score can read: each falls to its except clause
unscorable_token ==
    [symbol |-> St("RAW"), market_cap |-> St("n/a"), liquidity_usd |-> St("n/a"),
     source |-> None, price_change_24h |-> None] @@ test_token

RankTokens  == {test_token, gem_token, unscorable_token,
                With(test_token, "market_cap", Nu(525000)),
                With(test_token, "market_cap", Nu(5000000)),
                With(Without(test_token, "price_change_1h"), "price_change_24h", Nu(-80))}
RankBatches == SeqUpTo(RankTokens, MaxBatch)

\* tokens the notification step is tried on
NotifyTokens == {listed_token, shouting_token, quiet_token, anonymous_token}

\* test.py: test_storage's test_token
stored_token == [symbol |-> St("TEST"), name |-> St("Test Token"), score |-> Nu(85)]

\* keys given to the ledger directly (test.py: "0x123" and "0x456")
Keys == {"0x123", "0x456", "0xABC", "0xabc", "0xAbC"}

\* token records handed to the rug detector: gem_token with a scam or
\* suspicious symbol, with little, missing or unreadable liquidity, a pump, a
\* chain that is not a string, an audit and a website; and a token with a
\* scam symbol whose name is None
SecurityTokens ==
    {With(With(gem_token, "symbol", St("RUG")), "name", None)} \cup
    { Vary(Vary(Vary(Vary(Vary(Vary(gem_token, "symbol", sym), "liquidity_usd", liq),
                          "price_change_1h", c1), "chain", chain), "audit_info", audit),
           "website", site) :
        sym   \in {St("GEM"), St("RUG"), St("SAFEMOON"), St("X")},
        liq   \in {Nu(30000), Absent, Nu(500), St("n/a")},
        c1    \in {Nu(25), Nu(600), None},
        chain \in {Absent, None},
        audit \in {Absent, St("Audited by CertiK")},
        site  \in {Absent, St("https://gem.io")} }

\* minimum security scores a risk profile could carry
MinSecurityScores == {20, 40, 60, 80}

\* gem_token under the scam symbol "RUG"
rug_token == With(gem_token, "symbol", St("RUG"))

\* a record that passes the filters and whose contract and liquidity analyses
\* both raise: the chain is None and the liquidity is text
unreadable_token ==
    [symbol |-> St("RAW"), name |-> St("Raw Token"), volume_24h |-> Nu(10000),
     chain |-> None, liquidity_usd |-> St("n/a")] @@ Without(gem_token, "price_change_24h")

\* filtered batches handed to the security loop of a scan cycle
SecurityBatches ==
    { <<gem_token>>, <<rug_token, gem_token>>, <<unreadable_token>>,
      <<gem_token, unreadable_token, With(rug_token, "liquidity_usd", Nu(500))>> }

\* a token listed again, under another contract address and symbol
Relisted(token, address, symbol) ==
    With(With(token, "contract_address", St(address)), "symbol", St(symbol))

\* gem_token made invalid in one way each: no name, an empty symbol, a price
\* of zero and one above 1,000,000, a symbol of 1 and of 21 characters, a name
\* of 1 character; each under a contract address and a symbol of its own, as
\* scan_all_sources returns no two tokens that share one
InvalidRecords ==
    << Relisted(Without(gem_token, "name"), "0xa1", "GEMA"),
       Relisted(gem_token, "0xa2", ""),
       Relisted(With(gem_token, "price_usd", Nu(0)), "0xa3", "GEMC"),
       Relisted(With(gem_token, "price_usd", Nu(2000000)), "0xa4", "GEMD"),
       Relisted(gem_token, "0xa5", "G"),
       Relisted(gem_token, "0xa6", "GEMGEMGEMGEMGEMGEMGEM"),
       Relisted(With(gem_token, "name", St("G")), "0xa7", "GEMG") >>

\* tokens the sources return, some of them twice: gem_token, its symbol in
\* other letters under a new address, that address under a new symbol, its
\* address in other letters, the token without an address, the record with
\* neither, and a token whose symbol is a number
FoundTokens ==
    { gem_token,
      Relisted(gem_token, "0x456", "gem"),
      Relisted(gem_token, "0x456", "NEW"),
      Relisted(gem_token, "0X123", "OTHER"),
      listed_token,
      anonymous_token,
      With(gem_token, "symbol", Nu(12345)) }

\* what the sources return to a scan cycle
ScanBatches ==
    { <<>>,
      InvalidRecords \o <<gem_token>>,
      <<huge_cap_token>>,
      <<gem_token>>,
      <<Relisted(unreadable_token, "0x789", "RAW"), gem_token>>,
      <<listed_token, huge_cap_token, gem_token>> }

ScorerInit ==
    /\ s_in = <<>>
    /\ s_out = <<>>
    /\ s_tokens = <<>>
    /\ s_ret = Nu(0)
    /\ s_thr = NoThreshold
    /\ s_phase = "idle"

LedgerInit ==
    /\ notified_tokens = <<>>
    /\ total_notifications = 0
    /\ scan_history = <<>>
    /\ total_scans = 0
    /\ now = 0
    /\ recorded = {}
    /\ last_op = [op |-> "none"]

DetectorInit == rug_call = [op |-> "none"]

NoCycle == [stage |-> "none"]

BotInit ==
    /\ pc = "init"
    /\ scan_count = 0
    /\ consecutive_errors = 0
    /\ active_profile \in ProfileNames
    /\ cycle = NoCycle

\* the bot as constructed: the scorer's weights are config.SCORE_WEIGHTS
Init == FilterInit /\ ScorerInit /\ LedgerInit /\ DetectorInit /\ BotInit /\ weights = SCORE_WEIGHTS

\* a scorer configured with any of the weight tables
InitAnyWeights == FilterInit /\ ScorerInit /\ LedgerInit /\ DetectorInit /\ BotInit /\ weights \in WeightTables

----------------------------------------------------------------------------
(* One TokenScorer driven through its public methods *)

\* a call calculate_score(token)
CalculateScore(token) ==
    /\ s_phase = "idle"
    /\ \E r \in {calculate_score(token, weights)} :
           /\ s_in' = <<token>>
           /\ s_out' = <<r.token>>
           /\ s_tokens' = <<r.token>>
           /\ s_ret' = r.ret
    /\ s_thr' = NoThreshold
    /\ s_phase' = "scored_one"
    /\ UNCHANGED weights

\* a call score_tokens(tokens)
ScoreTokensCall(tokens) ==
    /\ s_phase = "idle"
    /\ \E r \in {score_tokens_call(tokens, <<>>, weights)} :
           /\ s_in' = tokens
           /\ s_out' = r.ret
           /\ s_tokens' = r.tokens
           /\ s_phase' = IF r.raised THEN "raised" ELSE "scored"
    /\ s_ret' = Nu(0)
    /\ s_thr' = NoThreshold
    /\ UNCHANGED weights

\* a call score_tokens(tokens, threshold), as run_scan_cycle makes it
ScoreTokensWithThreshold(tokens, threshold) ==
    /\ s_phase = "idle"
    /\ \E r \in {score_tokens_call(tokens, <<threshold>>, weights)} :
           /\ s_in' = tokens
           /\ s_out' = r.ret
           /\ s_tokens' = r.tokens
           /\ s_phase' = IF r.raised THEN "raised" ELSE "scored"
    /\ s_ret' = Nu(0)
    /\ s_thr' = threshold
    /\ UNCHANGED weights

----------------------------------------------------------------------------
(* One TokenStorage driven through its public methods *)

\* a call add_notified_token(key, token)
AddNotifiedToken(key, token) ==
    /\ total_notifications < MaxAdds
    /\ \E saved \in BOOLEAN :
       \E r \in {add_notified_token(key, token, notified_tokens, total_notifications,
                                     now, saved)} :
         /\ notified_tokens' = r.nt
         /\ total_notifications' = r.total
         /\ last_op' = [op |-> "add", key |-> key, ret |-> r.ret]
    /\ recorded' = recorded \cup {key}
    /\ UNCHANGED <<scan_history, total_scans, now>>

\* a call is_token_notified(key)
IsTokenNotified(key) ==
    /\ last_op' = [op |-> "query", key |-> key, ret |-> is_token_notified(key, notified_tokens)]
    /\ UNCHANGED <<notified_tokens, total_notifications, scan_history, total_scans, now, recorded>>

\* the clock advances a day
Tick ==
    /\ now < MaxDay
    /\ now' = now + 1
    /\ last_op' = [op |-> "tick"]
    /\ UNCHANGED <<notified_tokens, total_notifications, scan_history, total_scans, recorded>>

\* the add_scan_record calls made so far on the storage
RecordCalls == IF last_op.op = "add_scan_record" THEN last_op.calls ELSE 0

\* a call add_scan_record(scan_summary); the summary of the k-th scan reports
\* k scanned tokens, which tells the records apart
AddScanRecord ==
    /\ RecordCalls < MaxRecords
    /\ \E scan_summary \in {[tokens_scanned |-> RecordCalls + 1, tokens_filtered |-> 0,
                              notifications_sent |-> 0]} :
          scan_history' = add_scan_record(scan_history, scan_summary, now)
    /\ total_scans' = total_scans + 1
    /\ last_op' = [op |-> "add_scan_record", calls |-> RecordCalls + 1]
    /\ UNCHANGED <<notified_tokens, total_notifications, now, recorded>>

----------------------------------------------------------------------------
(* The notification step of a scan cycle and the periodic cleanup *)

\* the body of run_scan_cycle's loop over tokens_to_notify, for one token
NotifyToken(token) ==
    /\ total_notifications < MaxAdds
    /\ \E should \in {should_notify_token(token, notified_tokens)},
          key \in {notification_key(token)} :
       \E delivery \in (IF should THEN {"ok", "failed", "raised"} ELSE {"skipped"}),
          saved \in (IF should THEN BOOLEAN ELSE {TRUE}) :
       \E r \in {IF should
                 THEN send_token_notification(token, delivery, saved, notified_tokens,
                                              total_notifications, now)
                 ELSE [ret |-> FALSE, nt |-> notified_tokens,
                       total |-> total_notifications]} :
         /\ notified_tokens' = r.nt
         /\ total_notifications' = r.total
         /\ recorded' = IF r.nt # notified_tokens \/ r.total # total_notifications
                        THEN recorded \cup {key} ELSE recorded
         /\ last_op' = [op |-> "notify", token |-> token, key |-> key,
                        known |-> Lower(key) \in {Lower(k) : k \in recorded},
                        should |-> should,
                        delivery |-> delivery,
                        ret |-> r.ret]
         /\ UNCHANGED <<scan_history, total_scans, now>>

\* start()'s periodic storage.cleanup_old_notifications()
CleanupOldNotifications ==
    /\ notified_tokens' = cleanup_old_notifications(notified_tokens, now)
    /\ last_op' = [op |-> "cleanup",
                   removed |-> Cardinality(DOMAIN notified_tokens)
                               - Cardinality(DOMAIN notified_tokens')]
    /\ UNCHANGED <<total_notifications, scan_history, total_scans, now, recorded>>

----------------------------------------------------------------------------
(* One RugPullDetector driven through its public methods, one call a run *)

\* a call analyze_token_security(token)
AnalyzeTokenSecurity(token) ==
    /\ rug_call.op = "none"
    /\ rug_call' = [op |-> "analyze_token_security", token |-> token,
                    analysis |-> analyze_token_security(token, now)]

\* a call is_token_safe(token, min_security_score)
IsTokenSafe(token, min_security_score) ==
    /\ rug_call.op = "none"
    /\ rug_call' = [op |-> "is_token_safe", token |-> token,
                    min_security_score |-> min_security_score,
                    ret |-> is_token_safe(token, min_security_score, now)]

----------------------------------------------------------------------------
(* GemFinderBot.start and run_scan_cycle *)

CLEANUP_EVERY == 50     \* scan_count % 50 == 0
DEFAULT_MIN_SECURITY_SCORE == 60
DEFAULT_MAX_NOTIFICATIONS  == 5

\* config.RISK_PROFILES.get(config.ACTIVE_RISK_PROFILE, config.RISK_PROFILES['balanced'])
ActiveProfile ==
    IF active_profile \in DOMAIN RISK_PROFILES
    THEN RISK_PROFILES[active_profile] ELSE RISK_PROFILES["balanced"]

FreshCycle(all_tokens, tokens) ==
    [stage |-> "Raw", all_tokens |-> all_tokens, tokens |-> tokens, filtered_tokens |-> <<>>,
     min_security_score |-> None, secure_tokens |-> <<>>,
     scored_tokens |-> <<>>, tokens_to_notify |-> <<>>, result |-> <<>>]

\* the loop of step 3 from token i on: the tokens that pass is_token_safe,
\* each with its security analysis attached. is_token_safe and
\* analyze_token_security catch every exception themselves, so the loop's
\* except clause, which would keep the token with security score 50 and risk
\* level UNKNOWN, is never entered.
RECURSIVE SecurityLoop(_, _, _, _, _)
SecurityLoop(filtered_tokens, i, min_security_score, today, secure_tokens) ==
    IF i > Len(filtered_tokens) THEN secure_tokens
    ELSE Local(filtered_tokens[i], LAMBDA token :
           SecurityLoop(filtered_tokens, i + 1, min_security_score, today,
             IF is_token_safe(token, min_security_score, today)
             THEN Append(secure_tokens,
                         With(token, "security_analysis",
                              [t |-> "dict", d |-> analyze_token_security(token, today)]))
             ELSE secure_tokens))

\* the security loop run on a filtered batch
SecurityCheck(filtered_tokens, min_security_score) ==
    /\ rug_call.op = "none"
    /\ rug_call' = [op |-> "security_check", filtered_tokens |-> filtered_tokens,
                    min_security_score |-> min_security_score,
                    secure_tokens |-> SecurityLoop(filtered_tokens, 1, min_security_score,
                                                   now, <<>>)]

\* the loop of step 6 from token i on, deliveries[i] and saves[i] being what
\* the notifier and the disk do for token i
RECURSIVE NotifyLoop(_, _, _, _, _)
NotifyLoop(tokens, i, deliveries, saves, acc) ==
    IF i > Len(tokens) THEN acc
    ELSE IF ~should_notify_token(tokens[i], acc.nt)
      THEN NotifyLoop(tokens, i + 1, deliveries, saves, acc)
    ELSE Local(send_token_notification(tokens[i], deliveries[i], saves[i],
                                       acc.nt, acc.total, now), LAMBDA r :
           NotifyLoop(tokens, i + 1, deliveries, saves,
             [nt    |-> r.nt,
              total |-> r.total,
              keys  |-> IF r.nt # acc.nt \/ r.total # acc.total
                        THEN acc.keys \cup {notification_key(tokens[i])} ELSE acc.keys,
              notifications_sent |-> acc.notifications_sent + (IF r.ret THEN 1 ELSE 0)]))

\* start(): up to the first pass of the while loop
Start ==
    /\ pc = "init"
    /\ pc' = "loop"
    /\ UNCHANGED <<scan_count, consecutive_errors, active_profile, cycle>>
    /\ UNCHANGED <<filterVars, scorerVars, ledgerVars, detectorVars>>

\* the loop takes another pass; run_scan_cycle step 1: the sources return
\* all_tokens and scan_all_sources hands on what _deduplicate_tokens makes of
\* them; an exception in it ends the cycle in run_scan_cycle's except clause
ScanAllSources(all_tokens) ==
    /\ pc = "loop"
    /\ scan_count < MaxScans
    /\ scan_count' = scan_count + 1
    /\ \E r \in {_deduplicate_tokens(all_tokens)} :
         IF r.raised
         THEN /\ cycle' = [FreshCycle(all_tokens, <<>>) EXCEPT !.result =
                             [tokens_scanned |-> 0, tokens_filtered |-> 0,
                              notifications_sent |-> 0, error |-> "AttributeError"]]
              /\ pc' = "returned"
         ELSE IF r.ret = <<>>
         THEN /\ cycle' = [FreshCycle(all_tokens, r.ret) EXCEPT !.result =
                             [tokens_scanned |-> 0, tokens_filtered |-> 0,
                              notifications_sent |-> 0]]
              /\ pc' = "returned"
         ELSE /\ cycle' = FreshCycle(all_tokens, r.ret)
              /\ pc' = "filter"
    /\ UNCHANGED <<consecutive_errors, active_profile>>
    /\ UNCHANGED <<filterVars, scorerVars, ledgerVars, detectorVars>>

BeginScan == \E all_tokens \in ScanBatches : ScanAllSources(all_tokens)

\* a step 2 that goes on to the security stage with an empty list
FilterStage_without_short_circuit ==
    /\ pc = "filter"
    /\ \E r \in {apply_all_filters(cycle.tokens, ActiveProfile, filter_stats)} :
           /\ risk_profile' = ActiveProfile
           /\ filter_stats' = r.stats
           /\ IF r.ret = <<>> /\ Len(cycle.tokens) = 0
              THEN /\ cycle' = [cycle EXCEPT !.stage = "Filtered", !.result =
                                  [tokens_scanned |-> Len(cycle.tokens), tokens_filtered |-> 0,
                                   notifications_sent |-> 0]]
                   /\ pc' = "returned"
              ELSE /\ cycle' = [cycle EXCEPT !.stage = "Filtered", !.filtered_tokens = r.ret]
                   /\ pc' = "security"
    /\ UNCHANGED <<f_in, f_out, f_again, f_phase, f_calls>>
    /\ UNCHANGED <<scan_count, consecutive_errors, active_profile>>
    /\ UNCHANGED <<scorerVars, ledgerVars, detectorVars>>

\* run_scan_cycle step 2
FilterStage ==
    /\ pc = "filter"
    /\ \E r \in {apply_all_filters(cycle.tokens, ActiveProfile, filter_stats)} :
           /\ risk_profile' = ActiveProfile
           /\ filter_stats' = r.stats
           /\ IF r.ret = <<>>
              THEN /\ cycle' = [cycle EXCEPT !.stage = "Filtered", !.result =
                                  [tokens_scanned |-> Len(cycle.tokens), tokens_filtered |-> 0,
                                   notifications_sent |-> 0]]
                   /\ pc' = "returned"
              ELSE /\ cycle' = [cycle EXCEPT !.stage = "Filtered", !.filtered_tokens = r.ret]
                   /\ pc' = "security"
    /\ UNCHANGED <<f_in, f_out, f_again, f_phase, f_calls>>
    /\ UNCHANGED <<scan_count, consecutive_errors, active_profile>>
    /\ UNCHANGED <<scorerVars, ledgerVars, detectorVars>>

\* run_scan_cycle step 3
SecurityStage ==
    /\ pc = "security"
    /\ \E min_security_score \in
            {Get(ActiveProfile, "min_security_score", DEFAULT_MIN_SECURITY_SCORE)} :
       \E secure_tokens \in
            {SecurityLoop(cycle.filtered_tokens, 1, min_security_score, now, <<>>)} :
           IF secure_tokens = <<>>
           THEN /\ cycle' = [cycle EXCEPT !.stage = "SecurityChecked",
                                          !.min_security_score = min_security_score,
                                          !.result =
                               [tokens_scanned |-> Len(cycle.tokens),
                                tokens_filtered |-> Len(cycle.filtered_tokens),
                                tokens_secure |-> 0, notifications_sent |-> 0]]
                /\ pc' = "returned"
           ELSE /\ cycle' = [cycle EXCEPT !.stage = "SecurityChecked",
                                          !.min_security_score = min_security_score,
                                          !.secure_tokens = secure_tokens]
                /\ pc' = "score"
    /\ UNCHANGED <<scan_count, consecutive_errors, active_profile>>
    /\ UNCHANGED <<filterVars, scorerVars, ledgerVars, detectorVars>>

\* run_scan_cycle steps 4 to 6 and its except clause
ScoreStage ==
    /\ pc = "score"
    /\ pc' = "returned"
    /\ \E r \in {score_tokens_call(cycle.secure_tokens, <<ActiveProfile.score_threshold>>,
                                   weights)} :
         IF r.raised
         THEN /\ cycle' = [cycle EXCEPT !.result =
                             [tokens_scanned |-> 0, tokens_filtered |-> 0,
                              notifications_sent |-> 0, error |-> "TypeError"]]
              /\ UNCHANGED <<notified_tokens, total_notifications, recorded>>
         ELSE IF r.ret = <<>>
         THEN /\ cycle' = [cycle EXCEPT !.stage = "Scored", !.result =
                             [tokens_scanned |-> Len(cycle.tokens),
                              tokens_filtered |-> Len(cycle.filtered_tokens),
                              tokens_secure |-> Len(cycle.secure_tokens),
                              notifications_sent |-> 0]]
              /\ UNCHANGED <<notified_tokens, total_notifications, recorded>>
         ELSE \E tokens_to_notify \in
                  {SubSeq(r.ret, 1,
                          Min(Get(ActiveProfile, "max_tokens_per_scan",
                                  DEFAULT_MAX_NOTIFICATIONS), Len(r.ret)))} :
              \E deliveries \in [1..Len(tokens_to_notify) -> {"ok", "failed", "raised"}],
                 saves \in [1..Len(tokens_to_notify) -> BOOLEAN] :
              \E done \in {NotifyLoop(tokens_to_notify, 1, deliveries, saves,
                              [nt |-> notified_tokens, total |-> total_notifications,
                               keys |-> {}, notifications_sent |-> 0])} :
                /\ notified_tokens' = done.nt
                /\ total_notifications' = done.total
                /\ recorded' = recorded \cup done.keys
                /\ cycle' = [cycle EXCEPT
                     !.stage = "Selected",
                     !.scored_tokens = r.ret,
                     !.tokens_to_notify = tokens_to_notify,
                     !.result =
                       [tokens_scanned |-> Len(cycle.tokens),
                        tokens_filtered |-> Len(cycle.filtered_tokens),
                        tokens_secure |-> Len(cycle.secure_tokens),
                        high_scoring_tokens |-> Len(r.ret),
                        notifications_sent |-> done.notifications_sent,
                        risk_profile |-> active_profile,
                        score_threshold |-> ActiveProfile.score_threshold,
                        top_tokens |-> SubSeq(r.ret, 1, Min(5, Len(r.ret)))]]
    /\ UNCHANGED <<scan_history, total_scans, now, last_op>>
    /\ UNCHANGED <<scan_count, consecutive_errors, active_profile>>
    /\ UNCHANGED <<filterVars, scorerVars, detectorVars>>

\* start(): run_scan_cycle returned; the rest of the pass: the scan record,
\* the periodic summary and cleanup, and the wait, during which the clock may
\* reach the next day
EndScan ==
    /\ pc = "returned"
    /\ consecutive_errors' = 0
    /\ scan_history' = add_scan_record(scan_history, cycle.result, now)
    /\ total_scans' = total_scans + 1
    /\ notified_tokens' = IF scan_count % CLEANUP_EVERY = 0
                          THEN cleanup_old_notifications(notified_tokens, now)
                          ELSE notified_tokens
    /\ now' \in {now, Min(now + 1, MaxDay)}
    /\ pc' = "loop"
    /\ UNCHANGED <<total_notifications, recorded, last_op>>
    /\ UNCHANGED <<scan_count, active_profile, cycle>>
    /\ UNCHANGED <<filterVars, scorerVars, detectorVars>>

\* KeyboardInterrupt: the finally clause calls stop()
Stop ==
    /\ pc = "loop"
    /\ pc' = "stopped"
    /\ UNCHANGED <<scan_count, consecutive_errors, active_profile, cycle>>
    /\ UNCHANGED <<filterVars, scorerVars, ledgerVars, detectorVars>>

----------------------------------------------------------------------------
(* Specifications *)

\* a TokenFilter used through its public methods
FilterNext ==
    \/ \E p \in ProfileNames : set_risk_profile(RISK_PROFILES[p]) /\ UNCHANGED <<scorerVars, ledgerVars, botVars, detectorVars>>
    \/ \E tokens \in Batches : ApplyAllFilters(tokens) /\ UNCHANGED <<scorerVars, ledgerVars, botVars, detectorVars>>
    \/ FilterAgain /\ UNCHANGED <<scorerVars, ledgerVars, botVars, detectorVars>>
    \/ reset_stats /\ UNCHANGED <<scorerVars, ledgerVars, botVars, detectorVars>>

SpecFilter == Init /\ [][FilterNext]_vars

\* the profiles a TokenFilter is given: the configured ones, and each of them
\* with another min_volume_growth, score_threshold or max_tokens_per_scan
FilterProfiles ==
    LET configured == {RISK_PROFILES[p] : p \in ProfileNames}
    IN  configured
          \cup {[c EXCEPT !.min_volume_growth = 1] : c \in configured}
          \cup {[c EXCEPT !.score_threshold = 0] : c \in configured}
          \cup {[c EXCEPT !.max_tokens_per_scan = 1] : c \in configured}

\* a fresh TokenFilter given a risk profile, or none, and then one batch
PredicateNext ==
    \/ \E p \in FilterProfiles :
          /\ f_calls = 0
          /\ set_risk_profile(p)
          /\ UNCHANGED <<scorerVars, ledgerVars, botVars, detectorVars>>
    \/ \E tokens \in PredicateBatches :
          /\ f_calls = 0
          /\ ApplyAllFilters(tokens)
          /\ UNCHANGED <<scorerVars, ledgerVars, botVars, detectorVars>>

SpecPredicates == Init /\ [][PredicateNext]_vars

\* a TokenScorer used through its public methods
ScorerNext ==
    \/ \E token \in ScoreTokens : CalculateScore(token) /\ UNCHANGED <<filterVars, ledgerVars, botVars, detectorVars>>
    \/ \E tokens \in RankBatches : ScoreTokensCall(tokens) /\ UNCHANGED <<filterVars, ledgerVars, botVars, detectorVars>>
    \/ \E tokens \in RankBatches, threshold \in Thresholds :
         ScoreTokensWithThreshold(tokens, threshold) /\ UNCHANGED <<filterVars, ledgerVars, botVars, detectorVars>>

SpecScorer == InitAnyWeights /\ [][ScorerNext]_vars

\* a TokenStorage used through add_notified_token and is_token_notified
StorageNext ==
    \/ \E key \in Keys, token \in {stored_token, listed_token} :
         AddNotifiedToken(key, token) /\ UNCHANGED <<filterVars, scorerVars, botVars, detectorVars>>
    \/ \E key \in Keys : IsTokenNotified(key) /\ UNCHANGED <<filterVars, scorerVars, botVars, detectorVars>>

SpecStorage == Init /\ [][StorageNext]_vars

\* the notification step and the periodic cleanup, over the days
LedgerNext ==
    \/ \E token \in NotifyTokens : NotifyToken(token) /\ UNCHANGED <<filterVars, scorerVars, botVars, detectorVars>>
    \/ CleanupOldNotifications /\ UNCHANGED <<filterVars, scorerVars, botVars, detectorVars>>
    \/ Tick /\ UNCHANGED <<filterVars, scorerVars, botVars, detectorVars>>

SpecLedger == Init /\ [][LedgerNext]_vars

\* the first scan of a bot, up to the end of scan_all_sources
ScannerNext ==
    \/ Start
    \/ \E all_tokens \in SeqUpTo(FoundTokens, MaxFound) :
          scan_count = 0 /\ ScanAllSources(all_tokens)

SpecScanner == Init /\ [][ScannerNext]_vars

\* a TokenStorage given one scan record after another
HistoryNext == AddScanRecord /\ UNCHANGED <<filterVars, scorerVars, botVars, detectorVars>>

SpecHistory == Init /\ [][HistoryNext]_vars

\* a RugPullDetector used through its public methods and by the security loop
SecurityNext ==
    \/ \E token \in SecurityTokens :
         AnalyzeTokenSecurity(token) /\ UNCHANGED <<filterVars, scorerVars, ledgerVars, botVars>>
    \/ \E token \in SecurityTokens, min_security_score \in MinSecurityScores :
         IsTokenSafe(token, min_security_score)
         /\ UNCHANGED <<filterVars, scorerVars, ledgerVars, botVars>>
    \/ \E filtered_tokens \in SecurityBatches, min_security_score \in MinSecurityScores :
         SecurityCheck(filtered_tokens, min_security_score)
         /\ UNCHANGED <<filterVars, scorerVars, ledgerVars, botVars>>

SpecSecurity == Init /\ [][SecurityNext]_vars

\* the bot's main loop
Next == Start \/ BeginScan \/ FilterStage \/ SecurityStage \/ ScoreStage \/ EndScan \/ Stop

Spec == Init /\ [][Next]_vars

----------------------------------------------------------------------------
(* The alert ledger: C1, C2, C3 *)

\* C1 as stated: once a key has been recorded, should_notify_token is false
\* for every token with that key (up to letter case) in every later
\* notification step, whatever scans, clock ticks and cleanups came between.
C1_NeverAgain ==
    (last_op.op = "notify" /\ last_op.known) => ~last_op.should

\* C1 as amended: a record leaves the ledger only in a cleanup that finds it
\* more than RETENTION_DAYS old, and while a key's record is in the ledger
\* should_notify_token is false for every token with that key.
C1_SuppressedWhileRetained ==
    [][ /\ \A k \in DOMAIN notified_tokens :
             k \notin DOMAIN notified_tokens' =>
               /\ last_op'.op = "cleanup"
               /\ notified_tokens[k].notified_at < now - RETENTION_DAYS
        /\ (last_op'.op = "notify" /\ Lower(last_op'.key) \in DOMAIN notified_tokens)
             => ~last_op'.should ]_vars

\* a token recorded on an earlier day is offered again after a cleanup that
\* kept its record, and is refused
C1_Witness ==
    /\ last_op.op = "notify"
    /\ last_op.known
    /\ ~last_op.should
    /\ Lower(last_op.key) \in DOMAIN notified_tokens
    /\ notified_tokens[Lower(last_op.key)].notified_at < now
    /\ now > RETENTION_DAYS

\* C2: a notification step whose delivery returned false or raised returns
\* false, leaves notified_tokens and total_notifications as they were and
\* leaves the token eligible; the ledger changes in a notification step only
\* when the delivery succeeded, and a successful delivery of a keyed token
\* leaves its key recorded at the end of that same step.
C2_RecordedAfterDelivery ==
    [][ last_op'.op = "notify" =>
          /\ last_op'.delivery \in {"failed", "raised"} =>
               /\ ~last_op'.ret
               /\ notified_tokens' = notified_tokens
               /\ total_notifications' = total_notifications
               /\ should_notify_token(last_op'.token, notified_tokens')
          /\ (notified_tokens' # notified_tokens \/ total_notifications' # total_notifications)
               => (last_op'.delivery = "ok" /\ last_op'.ret)
          /\ last_op'.delivery = "ok" =>
               /\ last_op'.ret
               /\ Lower(last_op'.key) \in DOMAIN notified_tokens'
               /\ total_notifications' = total_notifications + 1
               /\ ~should_notify_token(last_op'.token, notified_tokens') ]_vars

\* an eligible token whose delivery failed: nothing recorded, still eligible
C2_Witness ==
    /\ last_op.op = "notify"
    /\ last_op.should
    /\ last_op.delivery = "failed"
    /\ ~last_op.ret
    /\ Lower(last_op.key) \notin DOMAIN notified_tokens
    /\ total_notifications > 0

\* C3: is_token_notified(k') is true exactly for the keys k' equal up to
\* letter case to a key add_notified_token was called with, every query
\* answered so, and the ledger holds one entry per lowercase key, however
\* often a key was recorded.
C3_RecordContains ==
    /\ \A k2 \in Keys :
         is_token_notified(k2, notified_tokens) <=> \E k \in recorded : Lower(k) = Lower(k2)
    /\ DOMAIN notified_tokens = {Lower(k) : k \in recorded}
    /\ last_op.op = "query" =>
         (last_op.ret <=> \E k \in recorded : Lower(k) = Lower(last_op.key))
    /\ last_op.op = "add" => is_token_notified(last_op.key, notified_tokens)

\* "0xABC" recorded twice; the query for "0xabc" answers true from one entry
C3_Witness ==
    /\ last_op = [op |-> "query", key |-> "0xabc", ret |-> TRUE]
    /\ recorded = {"0xABC"}
    /\ total_notifications = 2
    /\ Cardinality(DOMAIN notified_tokens) = 1

----------------------------------------------------------------------------
(* The scorer and the selection of a scan cycle: C4, C5, C6 *)

score(token) == Get(token, "score", Nu(0))

Descending(tokens) ==
    \A i \in 1..(Len(tokens) - 1) : RLe(score(tokens[i + 1]), score(tokens[i]))

\* the input tokens, scored, whose score is at least threshold, by descending
\* score, equal scores in their original order
Ranking(tokens, threshold, w) ==
    SortDescending(SelectSeq([i \in 1..Len(tokens) |-> calculate_score(tokens[i], w).token],
                             LAMBDA t : RLe(Nu(threshold), score(t))))

\* C4 as stated: a scan cycle whose security-checked set is not empty runs the
\* scorer with the active profile's score_threshold and selects at most
\* max_tokens_per_scan tokens, each with score >= that threshold, in
\* descending score order, each carrying a six-entry score_breakdown.
C4_ProfileSelection ==
    (pc = "returned" /\ cycle.secure_tokens # <<>>) =>
      /\ "error" \notin DOMAIN cycle.result
      /\ cycle.stage \in {"Scored", "Selected"}
      /\ cycle.scored_tokens =
           Ranking(cycle.secure_tokens, ActiveProfile.score_threshold, weights)
      /\ cycle.tokens_to_notify =
           SubSeq(cycle.scored_tokens, 1,
                  Min(ActiveProfile.max_tokens_per_scan, Len(cycle.scored_tokens)))
      /\ Len(cycle.tokens_to_notify) <= ActiveProfile.max_tokens_per_scan
      /\ Descending(cycle.tokens_to_notify)
      /\ \A i \in 1..Len(cycle.tokens_to_notify) :
           /\ RLe(Nu(ActiveProfile.score_threshold), score(cycle.tokens_to_notify[i]))
           /\ "score_breakdown" \in DOMAIN cycle.tokens_to_notify[i]
           /\ DOMAIN cycle.tokens_to_notify[i].score_breakdown.d = Categories

\* C5 as stated: score_tokens(tokens, T) returns exactly the input tokens
\* whose score is >= T, by descending score, equal scores in their original
\* order, and so every input token when T <= 0.
C5_ThresholdConsistency ==
    (s_phase \in {"scored", "raised"} /\ s_thr # NoThreshold) =>
      /\ s_phase = "scored"
      /\ s_out = Ranking(s_in, s_thr, weights)
      /\ s_thr <= 0 => Len(s_out) = Len(s_in)

\* C6: calculate_score returns a value in [0, 100], and the score it stores
\* in the token is the value it returns.
C6_ScoreBounded ==
    s_phase = "scored_one" =>
      /\ RLe(Nu(0), s_ret)
      /\ RLe(s_ret, Nu(100))
      /\ "score" \in DOMAIN s_out[1]
      /\ s_out[1].score = s_ret

\* a token without market cap under a table with a negative weight: the
\* weighted sum is below zero and the score is 0
C6_Witness ==
    /\ s_phase = "scored_one"
    /\ "market_cap" \notin DOMAIN s_in[1]
    /\ weights.volume_growth < 0
    /\ RLt(total_score(s_out[1].score_breakdown.d, weights), Nu(0))
    /\ s_ret = Nu(0)

----------------------------------------------------------------------------
(* The filter: C7, C8, C9, C10 *)

\* C7: filtering the list a call returned, under the same risk profile,
\* returns that list again.
C7_Idempotent ==
    f_phase = "refiltered" => f_again = f_out

\* a batch that lost some tokens and kept some, filtered again
C7_Witness ==
    /\ f_phase = "refiltered"
    /\ Len(f_out) >= 1
    /\ Len(f_out) < Len(f_in)
    /\ f_again = f_out

\* C8 as stated: after any sequence of apply_all_filters calls the counters
\* form a funnel.
C8_Funnel ==
    /\ filter_stats.passed_all_filters   <= filter_stats.passed_volume_growth
    /\ filter_stats.passed_volume_growth <= filter_stats.passed_volume
    /\ filter_stats.passed_volume        <= filter_stats.passed_market_cap
    /\ filter_stats.passed_market_cap    <= filter_stats.total_processed

\* C9 as stated: after apply_all_filters(tokens) returns, every counter
\* describes that batch only; passed_all_filters is the number of tokens
\* returned.
C9_CountersPerBatch ==
    f_phase = "filtered" =>
      /\ filter_stats = apply_all_filters(f_in, risk_profile, ZeroStats).stats
      /\ filter_stats.passed_all_filters = Len(f_out)

\* C10 as stated: a fresh TokenFilter given test_filter's two tokens returns
\* exactly the 200,000 one.
C10_FreshFilterRejectsHalfMillion ==
    (f_calls = 1 /\ f_phase = "filtered" /\ risk_profile = None
       /\ f_in = <<good_token, bad_token>>)
      => f_out = <<good_token>>

----------------------------------------------------------------------------
(* The rug detector: C11, C12 *)

\* the security score before it is normalised: 100 plus the five adjustments
RawSecurityScore(token, today) ==
    100 + SumAdjust(<<_analyze_contract(token, today), _analyze_liquidity(token),
                      _analyze_token_name(token), _analyze_trading_patterns(token),
                      _analyze_social_presence(token)>>).score_adjustment

\* C11: for every token, analyze_token_security returns a security_score in
\* 0..100, is_likely_rug is true exactly when the score is below 30 and
\* is_safe_to_trade exactly when it is at least 60.
C11_SecurityClamp ==
    rug_call.op = "analyze_token_security" =>
        /\ rug_call.analysis.security_score \in 0..100
        /\ rug_call.analysis.is_likely_rug <=> (rug_call.analysis.security_score < 30)
        /\ rug_call.analysis.is_safe_to_trade <=> (rug_call.analysis.security_score >= 60)

\* an analysis whose adjustments sum below -100: the score is clamped to 0
\* and the token is a likely rug
C11_Witness ==
    /\ rug_call.op = "analyze_token_security"
    /\ RawSecurityScore(rug_call.token, now) < 0
    /\ rug_call.analysis.security_score = 0
    /\ rug_call.analysis.is_likely_rug
    /\ ~rug_call.analysis.is_safe_to_trade

\* the conditions under which each factor analysis raises inside its try block
ContractRaises(token)  == ~IsStr(Get(token, "chain", St("")))
LiquidityRaises(token) ==
    \/ ~IsNum(Get(token, "liquidity_usd", Nu(0)))
    \/ /\ RLt(Nu(0), Get(token, "liquidity_usd", Nu(0)))
       /\ ~IsNum(Get(token, "market_cap", Nu(0)))
NameRaises(token)      == ~IsStr(Get(token, "name", St(""))) \/ ~IsStr(Get(token, "symbol", St("")))
TradingRaises(token)   ==
    \/ ~IsNum(Get(token, "price_change_1h", Nu(0)))
    \/ ~IsNum(Get(token, "market_cap", Nu(0)))
    \/ ~IsNum(Get(token, "price_change_24h", Nu(0)))
FactorRaises(token) ==
    ContractRaises(token) \/ LiquidityRaises(token) \/ NameRaises(token) \/ TradingRaises(token)

FallbackAdjustment(token, today) ==
      (IF ContractRaises(token) THEN -20 ELSE _analyze_contract(token, today).score_adjustment)
    + (IF LiquidityRaises(token) THEN -10 ELSE _analyze_liquidity(token).score_adjustment)
    + (IF NameRaises(token) THEN 0 ELSE _analyze_token_name(token).score_adjustment)
    + (IF TradingRaises(token) THEN 0 ELSE _analyze_trading_patterns(token).score_adjustment)
    + _analyze_social_presence(token).score_adjustment

InList(list, x) == \E i \in 1..Len(list) : list[i] = x

----------------------------------------------------------------------------
(* The security stage of a scan cycle: C13, C14, C15 *)

\* the scan cycle has run its security stage
SecurityStageDone == cycle.stage \in {"SecurityChecked", "Scored", "Ranked", "Selected"}

\* the filtered token is passed on to scoring
PassedOn(token) ==
    \E j \in 1..Len(cycle.secure_tokens) :
        Without(cycle.secure_tokens[j], "security_analysis") = token

\* C13: a filtered token whose security analysis errored is retained in the
\* security-checked set, marked with risk level UNKNOWN; only tokens whose
\* analysis succeeded and fell below the minimum security score are dropped.
C13_FailOpen ==
    SecurityStageDone =>
        \A i \in 1..Len(cycle.filtered_tokens) :
            /\ FactorRaises(cycle.filtered_tokens[i]) =>
                   \E j \in 1..Len(cycle.secure_tokens) :
                       /\ Without(cycle.secure_tokens[j], "security_analysis")
                            = cycle.filtered_tokens[i]
                       /\ cycle.secure_tokens[j].security_analysis.d.risk_level = "UNKNOWN"
            /\ ~PassedOn(cycle.filtered_tokens[i]) =>
                   /\ ~FactorRaises(cycle.filtered_tokens[i])
                   /\ analyze_token_security(cycle.filtered_tokens[i], now).security_score
                        < cycle.min_security_score

\* the gate as the claim states it
Gate(token, min_security_score) ==
    /\ analyze_token_security(token, now).security_score >= min_security_score
    /\ ~analyze_token_security(token, now).is_likely_rug

\* C14: is_token_safe(token, minScore) is true exactly when the analysis gives
\* security_score >= minScore and is_likely_rug is false; every token the
\* security loop passes on carries a security_analysis with security_score >=
\* the minimum and is_likely_rug false, and every token failing the gate is
\* dropped.
C14_SecurityGate ==
    /\ rug_call.op = "is_token_safe" =>
           (rug_call.ret <=> Gate(rug_call.token, rug_call.min_security_score))
    /\ rug_call.op = "security_check" =>
           /\ \A j \in 1..Len(rug_call.secure_tokens) :
                  /\ "security_analysis" \in DOMAIN rug_call.secure_tokens[j]
                  /\ rug_call.secure_tokens[j].security_analysis.d.security_score
                       >= rug_call.min_security_score
                  /\ ~rug_call.secure_tokens[j].security_analysis.d.is_likely_rug
                  /\ InList(rug_call.filtered_tokens,
                            Without(rug_call.secure_tokens[j], "security_analysis"))
           /\ \A i \in 1..Len(rug_call.filtered_tokens) :
                  Gate(rug_call.filtered_tokens[i], rug_call.min_security_score)
                  <=> \E j \in 1..Len(rug_call.secure_tokens) :
                          Without(rug_call.secure_tokens[j], "security_analysis")
                          = rug_call.filtered_tokens[i]

\* a batch checked against the minimum 20: a token scoring 20..29 is dropped
\* as a likely rug although its score reaches the minimum, and another token
\* is passed on
C14_Witness ==
    /\ rug_call.op = "security_check"
    /\ rug_call.min_security_score = 20
    /\ Len(rug_call.secure_tokens) > 0
    /\ \E i \in 1..Len(rug_call.filtered_tokens) :
           /\ analyze_token_security(rug_call.filtered_tokens[i], now).security_score \in 20..29
           /\ \A j \in 1..Len(rug_call.secure_tokens) :
                  Without(rug_call.secure_tokens[j], "security_analysis")
                  # rug_call.filtered_tokens[i]

\* C15: the minimum security score the security stage enforces depends on the
\* active risk profile: 80 for conservative, 60 for balanced, 40 for aggressive.
C15_MinSecurityByProfile ==
    SecurityStageDone =>
        cycle.min_security_score = CASE active_profile = "conservative" -> 80
                                     [] active_profile = "balanced"     -> 60
                                     [] active_profile = "aggressive"   -> 40

----------------------------------------------------------------------------
(* Errors inside the filter: C16 *)

\* no check raises on the token: its volume and its 1h price change are
\* numbers and its symbol is a string
Readable(token) ==
    /\ IsNum(Get(token, "volume_24h", Nu(0)))
    /\ IsNum(Get(token, "price_change_1h", Nu(0)))
    /\ IsStr(Get(token, "symbol", St("")))

\* C16: apply_all_filters never raises; a token on which a check raises is
\* rejected, and every other token of the batch gets the decision it would
\* get if that token were absent.
C16_ErrorIsolation ==
    f_phase = "filtered" =>
        /\ \A i \in 1..Len(f_out) : Readable(f_out[i])
        /\ f_out = apply_all_filters(SelectSeq(f_in, Readable), risk_profile, ZeroStats).ret

\* a batch with a token that reaches the raising check (its market cap is in
\* the band), filtered to a list that is not empty
C16_Witness ==
    /\ f_phase = "filtered"
    /\ Len(f_out) > 0
    /\ \E i \in 1..Len(f_in) :
           ~Readable(f_in[i]) /\ _check_market_cap(f_in[i], risk_profile)

----------------------------------------------------------------------------
(* The scan cycle as a state machine: C17, C18 *)

StageRank(stage) ==
    CASE stage = "Raw"             -> 1
      [] stage = "Filtered"        -> 2
      [] stage = "SecurityChecked" -> 3
      [] stage = "Scored"          -> 4
      [] stage = "Ranked"          -> 5
      [] stage = "Selected"        -> 6
      [] OTHER                     -> 0

\* what the stage the cycle is in has yielded
StageOutput ==
    CASE cycle.stage = "Raw"             -> cycle.tokens
      [] cycle.stage = "Filtered"        -> cycle.filtered_tokens
      [] cycle.stage = "SecurityChecked" -> cycle.secure_tokens
      [] cycle.stage = "Scored"          -> cycle.scored_tokens
      [] OTHER                           -> cycle.tokens_to_notify

\* the stages of one cycle follow the order, none runs twice, and a cycle
\* that has returned runs no further stage
StageStep ==
    /\ scan_count' # scan_count => cycle'.stage = "Raw"
    /\ (scan_count' = scan_count /\ cycle'.stage # cycle.stage) =>
           StageRank(cycle'.stage) > StageRank(cycle.stage)
    /\ (scan_count' = scan_count /\ StageRank(cycle.stage) >= 2) =>
           cycle'.filtered_tokens = cycle.filtered_tokens
    /\ (scan_count' = scan_count /\ StageRank(cycle.stage) >= 3) =>
           cycle'.secure_tokens = cycle.secure_tokens
    /\ pc = "returned" => cycle' = cycle

\* a stage runs only on what the stage before it yielded, and a cycle whose
\* stage yielded nothing has ended there, with no notification and no error
StageShortCircuit ==
    /\ StageRank(cycle.stage) >= 2 => cycle.tokens # <<>>
    /\ StageRank(cycle.stage) >= 3 => cycle.filtered_tokens # <<>>
    /\ StageRank(cycle.stage) >= 4 => cycle.secure_tokens # <<>>
    /\ StageRank(cycle.stage) >= 5 => cycle.scored_tokens # <<>>
    /\ pc \in {"filter", "security", "score"} => StageOutput # <<>>
    /\ (StageRank(cycle.stage) >= 1 /\ StageOutput = <<>>) =>
           /\ pc \in {"returned", "loop", "stopped"}
           /\ cycle.result.notifications_sent = 0
           /\ "error" \notin DOMAIN cycle.result
           /\ cycle.stage = "Raw" => cycle.filtered_tokens = <<>>
           /\ StageRank(cycle.stage) <= 2 =>
                  cycle.min_security_score = None /\ cycle.secure_tokens = <<>>
           /\ cycle.scored_tokens = <<>> /\ cycle.tokens_to_notify = <<>>

\* C17: the stages of a scan cycle run in the order Raw, Filtered,
\* SecurityChecked, Scored, Ranked, Selected, each at most once; when a stage
\* yields an empty set the cycle ends there with zero notifications and no
\* error reported, and no later stage runs.
C17_Sequential == [][StageStep]_vars /\ []StageShortCircuit

\* a cycle that ended at the security stage: tokens passed the filters, none
\* passed the security gate, and the cycle returned zero notifications
C17_Witness ==
    /\ pc = "returned"
    /\ cycle.stage = "SecurityChecked"
    /\ cycle.filtered_tokens # <<>>
    /\ cycle.secure_tokens = <<>>
    /\ cycle.result.notifications_sent = 0
    /\ "error" \notin DOMAIN cycle.result

\* a scan cycle that came back with the error dict of run_scan_cycle's except
\* clause: a stage raised inside it
StageRaised == pc = "returned" /\ "error" \in DOMAIN cycle.result

\* C18: an exception escaping a pipeline stage propagates out of
\* run_scan_cycle, and the main loop counts the scan as failed and goes on
\* with the next scan: the cycle never comes back with a result, the error
\* counter goes up by one and no scan record is stored for it.
C18_BatchFailure ==
    [][StageRaised =>
         /\ consecutive_errors' = consecutive_errors + 1
         /\ total_scans' = total_scans
         /\ scan_history' = scan_history
         /\ pc' = "loop"]_vars

----------------------------------------------------------------------------
(* The scam symbol "RUG": C19 *)

\* the token with an unremarkable symbol of the same length in place of its own
Renamed(token) == With(token, "symbol", St("GEM"))

\* C19 as stated: for a token whose symbol is "RUG" the -30 scam-symbol
\* penalty applies, and when all other adjustments sum to zero the security
\* score is below 60 and is_safe_to_trade is false.
C19_RugSymbolUnsafe ==
    ( /\ rug_call.op = "analyze_token_security"
      /\ Get(rug_call.token, "symbol", St("")) = St("RUG")
      /\ RawSecurityScore(Renamed(rug_call.token), now) = 100 ) =>
        /\ rug_call.analysis.security_score < 60
        /\ ~rug_call.analysis.is_safe_to_trade

\* C19 (amended): for a token whose symbol is "RUG" and whose name is a
\* string, the analysis reports the scam symbol and the score is 30 below
\* what the same token scores under an unremarkable symbol, before clamping;
\* when all other adjustments sum to zero the score is 70: risk level MEDIUM,
\* is_safe_to_trade true, is_likely_rug false.
C19_RugSymbolPenalty ==
    ( /\ rug_call.op = "analyze_token_security"
      /\ Get(rug_call.token, "symbol", St("")) = St("RUG")
      /\ IsStr(Get(rug_call.token, "name", St(""))) ) =>
        /\ InList(rug_call.analysis.risk_factors, "Scam symbol detected")
        /\ rug_call.analysis.security_score =
               Max(0, Min(100, RawSecurityScore(Renamed(rug_call.token), now) - 30))
        /\ RawSecurityScore(Renamed(rug_call.token), now) = 100 =>
               /\ rug_call.analysis.security_score = 70
               /\ rug_call.analysis.risk_level = "MEDIUM"
               /\ rug_call.analysis.is_safe_to_trade
               /\ ~rug_call.analysis.is_likely_rug

\* a token with symbol "RUG" and no other adjustment, analysed: score 70
C19_Witness ==
    /\ rug_call.op = "analyze_token_security"
    /\ Get(rug_call.token, "symbol", St("")) = St("RUG")
    /\ IsStr(Get(rug_call.token, "name", St("")))
    /\ RawSecurityScore(Renamed(rug_call.token), now) = 100
    /\ InList(rug_call.analysis.risk_factors, "Scam symbol detected")
    /\ rug_call.analysis.security_score = 70

----------------------------------------------------------------------------
(* The score breakdown: C20 *)

Explained(token) ==
    /\ "score_breakdown" \in DOMAIN token
    /\ token.score_breakdown.t = "dict"
    /\ DOMAIN token.score_breakdown.d = Categories
    /\ \A c \in Categories :
           /\ IsNum(token.score_breakdown.d[c])
           /\ RLe(Nu(0), token.score_breakdown.d[c])
           /\ RLe(token.score_breakdown.d[c], Nu(1))

\* C20: after score_tokens has processed a batch, every token of the batch,
\* kept or not and whatever its field values, carries a score_breakdown with
\* exactly the six category entries, each value in [0, 1].
C20_Explainability ==
    (s_phase = "scored" /\ s_thr = NoThreshold) =>
        /\ Len(s_tokens) = Len(s_in)
        /\ \A i \in 1..Len(s_tokens) :
               /\ Explained(s_tokens[i])
               /\ Without(Without(s_tokens[i], "score_breakdown"), "score")
                    = Without(Without(s_in[i], "score_breakdown"), "score")
        /\ \A i \in 1..Len(s_out) : Explained(s_out[i])

\* a batch of which one token was kept and one, which no sub-score could
\* read, was not: both carry the breakdown
C20_Witness ==
    /\ s_phase = "scored"
    /\ s_thr = NoThreshold
    /\ Len(s_in) = 2
    /\ Len(s_out) = 1
    /\ \E i \in 1..2 : s_in[i] = unscorable_token /\ Explained(s_tokens[i])
    /\ \A i \in 1..2 : Explained(s_tokens[i])

----------------------------------------------------------------------------
(* The result of a scan cycle: C21 *)

\* the keys of the result of a full run: a count for every stage, the
\* selected tokens and the active profile name
StructuredResultKeys ==
    {"tokens_scanned", "tokens_filtered", "tokens_secure", "high_scoring_tokens",
     "notifications_sent", "top_tokens", "risk_profile"}

\* C21: every result run_scan_cycle returns, on every exit path, contains the
\* count of every stage, the selected tokens and the active risk profile name.
C21_StructuredResult ==
    pc = "returned" =>
        /\ StructuredResultKeys \subseteq DOMAIN cycle.result
        /\ cycle.result.risk_profile = active_profile

----------------------------------------------------------------------------
(* Invalid records: C22 *)

\* a record with a missing or empty symbol, name or price, a price outside
\* (0, 1,000,000], a symbol length outside 2..20 or a name length outside 2..100
Invalid(token) ==
    \/ \E field \in {"symbol", "name", "price_usd"} :
           \/ field \notin DOMAIN token
           \/ token[field] \in {None, St(""), Nu(0)}
    \/ /\ IsNum(token.price_usd)
       /\ (RLe(token.price_usd, Nu(0)) \/ RLt(Nu(1000000), token.price_usd))
    \/ IsStr(token.symbol) /\ Len(token.symbol.s) \notin 2..20
    \/ IsStr(token.name) /\ Len(token.name.s) \notin 2..100

\* C22: in a scan cycle no invalid record is passed to the security analysis,
\* to the scoring or to the notification step.
C22_InvalidRejected ==
    cycle.stage # "none" =>
        /\ \A i \in 1..Len(cycle.filtered_tokens) : ~Invalid(cycle.filtered_tokens[i])
        /\ \A i \in 1..Len(cycle.secure_tokens) : ~Invalid(cycle.secure_tokens[i])
        /\ \A i \in 1..Len(cycle.tokens_to_notify) : ~Invalid(cycle.tokens_to_notify[i])

\* a scan that delivered invalid records among valid ones, filtered and
\* handed to the security analysis and on to the scoring
C22_Witness ==
    /\ pc = "score"
    /\ \E i \in 1..Len(cycle.tokens) : Invalid(cycle.tokens[i])
    /\ \E i \in 1..Len(cycle.tokens) :
          Invalid(cycle.tokens[i]) /\ _check_market_cap(cycle.tokens[i], ActiveProfile)
             /\ _check_volume(cycle.tokens[i]) /\ _check_volume_growth(cycle.tokens[i])
    /\ cycle.secure_tokens # <<>>

----------------------------------------------------------------------------
(* The filter as a selection: C23 *)

\* the four predicates hold of the token under the filter's profile
AllFourHold(token) ==
    /\ _check_market_cap(token, risk_profile)
    /\ _check_volume(token)
    /\ _check_volume_growth(token)
    /\ _check_basic_safety(token)

\* C23: the result of apply_all_filters is the subsequence of its input, in
\* input order, the tokens as they were given, made of exactly the tokens for
\* which the market-cap, volume, momentum and sanity predicates all hold; the
\* result is a function of the batch and the profile.
C23_OrderedSelection ==
    f_phase = "filtered" => f_out = SelectSeq(f_in, AllFourHold)

\* a batch with a rejected token between two survivors that differ
C23_Witness ==
    /\ f_phase = "filtered"
    /\ Len(f_in) = 3
    /\ Len(f_out) = 2
    /\ f_out[1] # f_out[2]
    /\ ~AllFourHold(f_in[2])

----------------------------------------------------------------------------
(* The market-cap predicate: C24 *)

\* the band the filter starts from: the profile's, or the configuration's
\* when no profile is set
StartBand ==
    IF risk_profile = None THEN <<MIN_MARKET_CAP, MAX_MARKET_CAP>>
    ELSE <<risk_profile.min_market_cap, risk_profile.max_market_cap>>

\* the market cap is a positive number within the band <<lo0, hi0>> widened
\* by (0.5, 3) for a trending or detailed source and by (0.3, 5) for a 24h
\* change above 50 in size
InWidenedBand(token, lo0, hi0) ==
    LET market_cap == Get(token, "market_cap", Nu(0))
        source     == Get(token, "source", St(""))
        change     == Get(token, "price_change_24h", Nu(0))
        tagged     == IsStr(source) /\ \E tag \in {"trending", "detailed"} :
                                           Contains(Lower(source.s), tag)
        volatile   == IsNum(change) /\ (RLt(Nu(50), change) \/ RLt(change, Nu(-50)))
        lo == RMul(RMul(Nu(lo0), IF tagged THEN Fr(1, 2) ELSE Nu(1)),
                   IF volatile THEN Fr(3, 10) ELSE Nu(1))
        hi == RMul(RMul(Nu(hi0), IF tagged THEN Nu(3) ELSE Nu(1)),
                   IF volatile THEN Nu(5) ELSE Nu(1))
    IN  /\ IsNum(market_cap)
        /\ RLt(Nu(0), market_cap)
        /\ RLe(lo, market_cap)
        /\ RLe(market_cap, hi)

\* the source and the 24h change can be read: a string and a number
BandReadable(token) ==
    /\ IsStr(Get(token, "source", St("")))
    /\ IsNum(Get(token, "price_change_24h", Nu(0)))

\* after the first batch of a filter, passed_market_cap counts the tokens of
\* the batch that the market-cap check let through
FirstBatchFiltered == f_calls = 1 /\ f_phase = "filtered"

\* C24 as stated: a token passes the market-cap predicate iff its market cap
\* is a positive number within the widened band; with band [100,000, 300,000]
\* and no widening a 500,000 token fails.
C24_MarketCapBand ==
    /\ FirstBatchFiltered =>
           filter_stats.passed_market_cap =
               Cardinality({i \in 1..Len(f_in) :
                               InWidenedBand(f_in[i], StartBand[1], StartBand[2])})
    /\ ~_check_market_cap_in(bad_token, 100000, 300000)

\* C24 (amended): a token passes the market-cap predicate iff its market cap
\* is a positive number within the widened band and its source is a string
\* and its 24h change a number (a missing one counts as "" and 0); the band
\* starts as the profile's, or the configuration's when no profile is set;
\* with band [100,000, 300,000] and no widening a 500,000 token fails.
C24_MarketCapBandReadable ==
    /\ FirstBatchFiltered =>
           filter_stats.passed_market_cap =
               Cardinality({i \in 1..Len(f_in) :
                               /\ BandReadable(f_in[i])
                               /\ InWidenedBand(f_in[i], StartBand[1], StartBand[2])})
    /\ f_phase = "filtered" =>
           \A i \in 1..Len(f_out) :
               BandReadable(f_out[i]) /\ InWidenedBand(f_out[i], StartBand[1], StartBand[2])
    /\ ~_check_market_cap_in(bad_token, 100000, 300000)

\* a first batch with a token that passed on both widenings only, and at
\* least one token that did not pass
C24_Witness ==
    /\ FirstBatchFiltered
    /\ filter_stats.passed_market_cap \in 1..(Len(f_in) - 1)
    /\ \E i \in 1..Len(f_in) :
           /\ InWidenedBand(f_in[i], StartBand[1], StartBand[2])
           /\ ~InWidenedBand(Without(f_in[i], "source"), StartBand[1], StartBand[2])
           /\ ~InWidenedBand(Without(f_in[i], "price_change_24h"), StartBand[1], StartBand[2])

----------------------------------------------------------------------------
(* The momentum predicate: C25 *)

\* the number v, or 0 when the token has no such number
Change(token, key) ==
    IF IsNum(Get(token, key, Nu(0))) THEN Get(token, key, Nu(0)) ELSE Nu(0)

Trending(token) ==
    IsStr(Get(token, "source", St(""))) /\ Contains(Lower(Get(token, "source", St("")).s), "trending")

\* the accumulated growth indicator, minGrowth being MIN_VOLUME_GROWTH
GrowthIndicator(token) ==
    LET c1  == Change(token, "price_change_1h")
        c24 == Change(token, "price_change_24h")
        c7  == Change(token, "price_change_7d")
        mc  == Change(token, "market_cap")
        minGrowth == Nu(MIN_VOLUME_GROWTH)
        one_hour  == IF RLt(RMul(minGrowth, Fr(1, 2)), c1) THEN 2 ELSE IF RLt(Nu(0), c1) THEN 1 ELSE 0
        one_day   == IF RLt(minGrowth, c24) THEN 2
                     ELSE IF RLt(RMul(minGrowth, Fr(3, 10)), c24) THEN 1 ELSE 0
        week      == IF RLt(RMul(minGrowth, Nu(2)), c7) THEN 1 ELSE 0
        recovery  == IF RLt(c7, Nu(0)) /\ RLt(Nu(20), c24) THEN 2 ELSE 0
        trending  == IF Trending(token) THEN 1 ELSE 0
        small_cap == IF RLt(mc, Nu(200000)) /\ RLt(Nu(10), c24) THEN 1 ELSE 0
    IN  one_hour + one_day + week + recovery + trending + small_cap

\* the three price changes and the market cap are numbers and the source is
\* a string, a missing one counting as 0 and ""
MomentumReadable(token) ==
    /\ \A key \in {"price_change_1h", "price_change_24h", "price_change_7d", "market_cap"} :
           IsNum(Get(token, key, Nu(0)))
    /\ IsStr(Get(token, "source", St("")))

\* the other three predicates hold of the token
OtherThreeHold(token) ==
    /\ _check_market_cap(token, risk_profile)
    /\ _check_volume(token)
    /\ _check_basic_safety(token)

\* a non-trending token with 1h change <= 0, 24h change <= 0.3 x minGrowth
\* and 7d change <= 2 x minGrowth
NoMomentum(token) ==
    /\ ~Trending(token)
    /\ RLe(Change(token, "price_change_1h"), Nu(0))
    /\ RLe(Change(token, "price_change_24h"), RMul(Nu(MIN_VOLUME_GROWTH), Fr(3, 10)))
    /\ RLe(Change(token, "price_change_7d"), RMul(Nu(MIN_VOLUME_GROWTH), Nu(2)))

ClaimedMomentum(token) == GrowthIndicator(token) >= 1

\* C25 as stated: a token passes the momentum predicate iff its accumulated
\* growth indicator is at least 1; a non-trending token with 1h change <= 0,
\* 24h change <= 0.3 x minGrowth and 7d change <= 2 x minGrowth is rejected.
C25_Momentum ==
    f_phase = "filtered" =>
        /\ f_out = SelectSeq(SelectSeq(f_in, OtherThreeHold), ClaimedMomentum)
        /\ \A i \in 1..Len(f_out) : ~NoMomentum(f_out[i])

ReadableMomentum(token) == MomentumReadable(token) /\ GrowthIndicator(token) >= 1

\* C25 (amended): a token passes the momentum predicate iff its three price
\* changes and its market cap are numbers, its source is a string, and its
\* accumulated growth indicator is at least 1; a non-trending token with 1h
\* change <= 0, 24h change <= 0.3 x minGrowth and 7d change <= 2 x minGrowth
\* is rejected, minGrowth being the configured MIN_VOLUME_GROWTH.
C25_MomentumReadable ==
    f_phase = "filtered" =>
        /\ f_out = SelectSeq(SelectSeq(f_in, OtherThreeHold), ReadableMomentum)
        /\ \A i \in 1..Len(f_out) : ~NoMomentum(f_out[i])
        /\ FirstBatchFiltered =>
               filter_stats.passed_volume_growth =
                   Cardinality({i \in 1..Len(f_in) :
                       /\ _check_market_cap(f_in[i], risk_profile)
                       /\ _check_volume(f_in[i])
                       /\ ReadableMomentum(f_in[i])})

\* a batch with a token kept on one growth indicator and a token that the
\* other three predicates accept, rejected for no momentum
C25_Witness ==
    /\ f_phase = "filtered"
    /\ \E i \in 1..Len(f_out) : GrowthIndicator(f_out[i]) = 1
    /\ \E i \in 1..Len(f_in) : OtherThreeHold(f_in[i]) /\ NoMomentum(f_in[i])

----------------------------------------------------------------------------
(* One notification per identity key in a scan cycle: C26 *)

\* the step is the loop body of the notification step, for one token
NotifyStep == last_op'.op = "notify"

\* C26: within a scan cycle, where nothing is removed from the ledger, at
\* most one notification is sent per identity key: a token whose key, up to
\* letter case, is in the ledger is skipped; a token that was delivered is in
\* the ledger before the next token is checked; the loop removes nothing from
\* the ledger; a token with neither contract address nor symbol is skipped.
C26_OncePerKey ==
    [][NotifyStep =>
         /\ Lower(last_op'.key) \in DOMAIN notified_tokens =>
                last_op'.delivery = "skipped" /\ ~last_op'.ret
         /\ last_op'.delivery = "ok" =>
                last_op'.ret /\ Lower(last_op'.key) \in DOMAIN notified_tokens'
         /\ last_op'.ret => last_op'.delivery = "ok"
         /\ DOMAIN notified_tokens \subseteq DOMAIN notified_tokens'
         /\ last_op'.key = "" => last_op'.delivery = "skipped"]_vars

\* the second of two tokens with the same contract address in another letter
\* case, skipped on the day the first was notified
C26_Witness ==
    /\ last_op.op = "notify"
    /\ last_op.delivery = "skipped"
    /\ last_op.key # ""
    /\ last_op.key \notin DOMAIN notified_tokens
    /\ Lower(last_op.key) \in DOMAIN notified_tokens
    /\ notified_tokens[Lower(last_op.key)].notified_at = now
    /\ total_notifications = 1

----------------------------------------------------------------------------
(* The filter reads the profile's market-cap band only: C27 *)

\* profile q has the market-cap band of profile p
SameBand(p, q) ==
    /\ q.min_market_cap = p.min_market_cap
    /\ q.max_market_cap = p.max_market_cap

\* C27: the filtered list depends on the risk profile only through
\* min_market_cap and max_market_cap: a fresh filter given a profile that
\* differs from the one set only in min_volume_growth, score_threshold or
\* max_tokens_per_scan returns the same list for the same batch.
C27_ProfileBandOnly ==
    (FirstBatchFiltered /\ risk_profile # None) =>
        \A q \in FilterProfiles :
            SameBand(risk_profile, q) =>
                apply_all_filters(f_in, q, ZeroStats).ret = f_out

\* a batch of which both tokens pass, filtered under the balanced profile,
\* which has three other profiles with the same band
C27_Witness ==
    /\ FirstBatchFiltered
    /\ risk_profile = RISK_PROFILES["balanced"]
    /\ Len(f_out) = 2
    /\ Cardinality({q \in FilterProfiles : SameBand(risk_profile, q)}) = 4

----------------------------------------------------------------------------
(* The error counter of the main loop: C28 *)

MAX_CONSECUTIVE_ERRORS == 5     \* GemFinderBot.max_consecutive_errors

----------------------------------------------------------------------------
(* The bounded scan history: C29 *)

\* C29: after any number of add_scan_record calls the history holds at most
\* 100 records, the most recent ones in the order they were added, and
\* total_scans is the number of calls made.
C29_BoundedHistory ==
    /\ Len(scan_history) <= HISTORY_LIMIT
    /\ Len(scan_history) = Min(RecordCalls, HISTORY_LIMIT)
    /\ \A i \in DOMAIN scan_history :
           scan_history[i].tokens_scanned = RecordCalls - Len(scan_history) + i
    /\ total_scans = RecordCalls

\* a history that has been trimmed twice
C29_Witness ==
    /\ Len(scan_history) = HISTORY_LIMIT
    /\ total_scans = HISTORY_LIMIT + 2
    /\ scan_history[1].tokens_scanned = 3

----------------------------------------------------------------------------
(* Deduplication before the pipeline: C30 *)

\* the lower-case contract address and symbol of a token, "" when missing
AddressOf(token) == Lower(Get(token, "contract_address", St("")).s)
SymbolOf(token)  == Lower(Get(token, "symbol", St("")).s)

\* two tokens share a non-empty lower-case contract address or symbol
Share(a, b) ==
    \/ AddressOf(a) # "" /\ AddressOf(a) = AddressOf(b)
    \/ SymbolOf(a) # "" /\ SymbolOf(a) = SymbolOf(b)

\* the tokens of a list at the positions K, in the order of the list
RECURSIVE At(_, _, _)
At(tokens, K, i) ==
    IF i > Len(tokens) THEN <<>>
    ELSE (IF i \in K THEN <<tokens[i]>> ELSE <<>>) \o At(tokens, K, i + 1)

\* every address and symbol of the list is a string
Lowerable(tokens) ==
    \A i \in DOMAIN tokens :
        /\ IsStr(Get(tokens[i], "contract_address", St("")))
        /\ IsStr(Get(tokens[i], "symbol", St("")))

\* scan_all_sources has returned the list cycle.tokens for cycle.all_tokens
Deduplicated == scan_count = 1 /\ ~(pc = "returned" /\ "error" \in DOMAIN cycle.result)

NoTwoShare(tokens) ==
    \A i, j \in DOMAIN tokens : i # j => ~Share(tokens[i], tokens[j])

\* C30 as stated: the output is an order-preserving subsequence of the input,
\* no two of its tokens share a non-empty lower-case contract address or
\* symbol, the token kept for an address or a symbol is the first of the input
\* that has it, and deduplicating the output again changes nothing.
C30_FirstOccurrenceKept ==
    Deduplicated =>
        /\ \E K \in SUBSET DOMAIN cycle.all_tokens :
              /\ cycle.tokens = At(cycle.all_tokens, K, 1)
              /\ \A i \in K : \A j \in 1..(i - 1) :
                     ~Share(cycle.all_tokens[j], cycle.all_tokens[i])
        /\ NoTwoShare(cycle.tokens)
        /\ _deduplicate_tokens(cycle.tokens).ret = cycle.tokens

\* C30 as amended: the output is an order-preserving subsequence of the input,
\* no two of its tokens share a non-empty lower-case contract address or
\* symbol, a token is kept exactly when no token kept before it shares one
\* with it, and deduplicating the output again changes nothing; the call
\* raises exactly when an address or a symbol of the input is not a string.
C30_GreedyDeduplication ==
    scan_count = 1 =>
        /\ Deduplicated <=> Lowerable(cycle.all_tokens)
        /\ Deduplicated =>
             /\ \E K \in SUBSET DOMAIN cycle.all_tokens :
                   /\ cycle.tokens = At(cycle.all_tokens, K, 1)
                   /\ \A i \in DOMAIN cycle.all_tokens :
                          i \in K <=> \A j \in K : j < i =>
                                        ~Share(cycle.all_tokens[j], cycle.all_tokens[i])
             /\ NoTwoShare(cycle.tokens)
             /\ _deduplicate_tokens(cycle.tokens) = [raised |-> FALSE, ret |-> cycle.tokens]

\* a token dropped for its symbol, and a later token with the dropped token's
\* address kept
C30_Witness ==
    /\ Deduplicated
    /\ Len(cycle.all_tokens) = 3
    /\ Len(cycle.tokens) = 2
    /\ cycle.tokens = <<cycle.all_tokens[1], cycle.all_tokens[3]>>
    /\ Share(cycle.all_tokens[1], cycle.all_tokens[2])
    /\ Share(cycle.all_tokens[2], cycle.all_tokens[3])

====
